---- MODULE Spec2Model ----
(***************************************************************************)
(* Model of the template engine of html-to-image-worker                    *)
(* (src/src/utils/template-processor.js) and of the template endpoints of  *)
(* src/src/index.js that call it.                                          *)
(*                                                                         *)
(* Text is a sequence of one-character strings.  Positions are 0-based, as *)
(* in the JavaScript source, so that indexOf's -1 and the source's index   *)
(* arithmetic carry over unchanged.                                        *)
(*                                                                         *)
(* A JavaScript value is a tagged record:                                  *)
(*   [t |-> "undef"]  [t |-> "null"]  [t |-> "bool", b |-> BOOLEAN]        *)
(*   [t |-> "num", n |-> Nat]         [t |-> "str", s |-> text]            *)
(*   [t |-> "arr", a |-> sequence of values]                               *)
(*   [t |-> "obj", o |-> sequence of <<key, value>> in insertion order]    *)
(* Object keys are non-numeric names, so Object.entries lists them in      *)
(* insertion order; property lookup does not model the prototype chain.    *)
(***************************************************************************)
EXTENDS Integers, Sequences, FiniteSets

\* ------------------------------------------------------------------------
\* Values
\* ------------------------------------------------------------------------

Undef == [t |-> "undef"]

Null == [t |-> "null"]

Bool(x) == [t |-> "bool", b |-> x]

Num(x) == [t |-> "num", n |-> x]

Str(x) == [t |-> "str", s |-> x]

Arr(x) == [t |-> "arr", a |-> x]

Obj(x) == [t |-> "obj", o |-> x]

\* ------------------------------------------------------------------------
\* JavaScript string primitives
\* ------------------------------------------------------------------------

\* The character U+0060, which the lexer of TLA+ does not accept inside a
\* string: this atom stands for it.
GraveAccent == "GRAVE"

Apostrophe == "'"

Min(S) == CHOOSE x \in S : \A y \in S : x <= y

Clamp(i, n) == IF i < 0 THEN 0 ELSE IF i > n THEN n ELSE i

\* String.prototype.substring(a, b): clamps both, swaps when a > b.
Substring(s, a, b) ==
  LET x == Clamp(a, Len(s))
      y == Clamp(b, Len(s))
      lo == IF x <= y THEN x ELSE y
      hi == IF x <= y THEN y ELSE x
  IN  SubSeq(s, lo + 1, hi)

\* String.prototype.substring(a)
SubstringFrom(s, a) == Substring(s, a, Len(s))

\* needle occurs in s at 0-based position i
OccursAt(s, needle, i) ==
  /\ i >= 0
  /\ i + Len(needle) <= Len(s)
  /\ \A k \in 1..Len(needle) : s[i + k] = needle[k]

\* String.prototype.indexOf(needle, from): first position >= from, or -1.
IndexOf(s, needle, from) ==
  LET c == {i \in Clamp(from, Len(s))..(Len(s) - Len(needle)) : OccursAt(s, needle, i)}
  IN  IF c = {} THEN 0 - 1 ELSE Min(c)

\* The characters \s of a regular expression and trim() treat as white space.
IsSpace(c) == c \in {" ", "\n", "\t"}

RECURSIVE TrimStart(_)
TrimStart(s) == IF s # <<>> /\ IsSpace(Head(s)) THEN TrimStart(Tail(s)) ELSE s

RECURSIVE TrimEnd(_)
TrimEnd(s) ==
  IF s # <<>> /\ IsSpace(s[Len(s)]) THEN TrimEnd(SubSeq(s, 1, Len(s) - 1)) ELSE s

\* String.prototype.trim()
Trim(s) == TrimEnd(TrimStart(s))

Digit(d) == <<"0", "1", "2", "3", "4", "5", "6", "7", "8", "9">>[d + 1]

\* String(n) for a non-negative integer
RECURSIVE NumToString(_)
NumToString(n) ==
  IF n < 10 THEN <<Digit(n)>> ELSE NumToString(n \div 10) \o <<Digit(n % 10)>>

BoolToString(b) == IF b THEN <<"t", "r", "u", "e">> ELSE <<"f", "a", "l", "s", "e">>

\* String(value).  An array is its elements joined by commas (null and
\* undefined elements as the empty string), an object is "[object Object]".
RECURSIVE String(_)
RECURSIVE JoinElems(_, _)
String(v) ==
  CASE v.t = "str" -> v.s
    [] v.t = "num" -> NumToString(v.n)
    [] v.t = "bool" -> BoolToString(v.b)
    [] v.t = "null" -> <<"n", "u", "l", "l">>
    [] v.t = "undef" -> <<"u", "n", "d", "e", "f", "i", "n", "e", "d">>
    [] v.t = "arr" -> JoinElems(v.a, 1)
    [] v.t = "obj" ->
         <<"[", "o", "b", "j", "e", "c", "t", " ", "O", "b", "j", "e", "c", "t", "]">>
JoinElems(a, i) ==
  IF i > Len(a) THEN <<>>
  ELSE (IF a[i].t \in {"null", "undef"} THEN <<>> ELSE String(a[i]))
       \o (IF i < Len(a) THEN <<",">> ELSE <<>>)
       \o JoinElems(a, i + 1)

\* GetSubstitution of String.prototype.replace for a pattern without capture
\* groups: in the replacement text "$$" is "$", "$&" the matched text,
\* "$" with a grave accent the text before the match, "$" with an apostrophe
\* the text after it; every other character, and "$" before anything else,
\* stands for itself.
RECURSIVE GetSubstitution(_, _, _, _)
GetSubstitution(matched, str, position, replacement) ==
  IF replacement = <<>> THEN <<>>
  ELSE IF Head(replacement) = "$" /\ Len(replacement) >= 2
            /\ replacement[2] \in {"$", "&", GraveAccent, Apostrophe}
       THEN (CASE replacement[2] = "$" -> <<"$">>
               [] replacement[2] = "&" -> matched
               [] replacement[2] = GraveAccent -> Substring(str, 0, position)
               [] replacement[2] = Apostrophe -> SubstringFrom(str, position + Len(matched)))
            \o GetSubstitution(matched, str, position, SubSeq(replacement, 3, Len(replacement)))
       ELSE <<Head(replacement)>> \o GetSubstitution(matched, str, position, Tail(replacement))

\* str.replace(pattern, replacement) with a string pattern: the first
\* occurrence only.
ReplaceFirst(str, pattern, replacement) ==
  LET i == IndexOf(str, pattern, 0)
  IN  IF i = 0 - 1 THEN str
      ELSE Substring(str, 0, i)
           \o GetSubstitution(pattern, str, i, replacement)
           \o SubstringFrom(str, i + Len(pattern))

\* A compiled regular expression of single-character atoms: <<"lit", c>>
\* matches the character c, <<"any">> matches every character but a line
\* terminator.  This is the fragment of the RegExp syntax that the
\* patterns built from keys can reach with the keys of the model.
RECURSIVE CompileRegExp(_)
CompileRegExp(src) ==
  IF src = <<>> THEN <<>>
  ELSE IF Head(src) = "\\" /\ Len(src) >= 2
       THEN <<<<"lit", src[2]>>>> \o CompileRegExp(SubSeq(src, 3, Len(src)))
       ELSE IF Head(src) = "."
            THEN <<<<"any">>>> \o CompileRegExp(Tail(src))
            ELSE <<<<"lit", Head(src)>>>> \o CompileRegExp(Tail(src))

AtomMatches(atom, c) == IF atom[1] = "any" THEN c # "\n" ELSE atom[2] = c

RegExpMatchesAt(s, atoms, i) ==
  /\ i + Len(atoms) <= Len(s)
  /\ \A k \in 1..Len(atoms) : AtomMatches(atoms[k], s[i + k])

\* str.replace(/atoms/g, replacement): every match, left to right, not
\* overlapping; the text put in is never scanned again by this call.
RECURSIVE ReplaceAllFrom(_, _, _, _)
ReplaceAllFrom(str, atoms, replacement, i) ==
  IF i >= Len(str) THEN <<>>
  ELSE IF atoms # <<>> /\ RegExpMatchesAt(str, atoms, i)
       THEN GetSubstitution(SubSeq(str, i + 1, i + Len(atoms)), str, i, replacement)
            \o ReplaceAllFrom(str, atoms, replacement, i + Len(atoms))
       ELSE <<str[i + 1]>> \o ReplaceAllFrom(str, atoms, replacement, i + 1)

ReplaceAll(str, atoms, replacement) == ReplaceAllFrom(str, atoms, replacement, 0)

\* The characters escapeRegExp escapes: . * + ? ^ $ { } ( ) | [ ] \
RegExpSpecial == {".", "*", "+", "?", "^", "$", "{", "}", "(", ")", "|", "[", "]", "\\"}

RECURSIVE escapeRegExp(_)
escapeRegExp(string) ==
  IF string = <<>> THEN <<>>
  ELSE (IF Head(string) \in RegExpSpecial THEN <<"\\", Head(string)>> ELSE <<Head(string)>>)
       \o escapeRegExp(Tail(string))

\* new RegExp of "\{\{", the escaped key and "\}\}", with the flag g
KeyPattern(key) ==
  CompileRegExp(<<"\\", "{", "\\", "{">> \o escapeRegExp(key) \o <<"\\", "}", "\\", "}">>)

\* a literal regular expression such as /\{\{@index\}\}/g
LiteralPattern(text) == [k \in 1..Len(text) |-> <<"lit", text[k]>>]

\* ------------------------------------------------------------------------
\* JavaScript value primitives
\* ------------------------------------------------------------------------

\* !value
Falsy(v) ==
  \/ v.t \in {"undef", "null"}
  \/ v.t = "bool" /\ ~v.b
  \/ v.t = "num" /\ v.n = 0
  \/ v.t = "str" /\ v.s = <<>>

\* typeof value !== 'undefined', in place of the test for an object
TypeofDefined(v) == v.t # "undef"

\* typeof value === 'object'
TypeofObject(v) == v.t \in {"null", "arr", "obj"}

\* Object.entries(value): the pairs of an object in insertion order, the
\* indexed elements of an array, the indexed characters of a string, nothing
\* for another primitive.
Entries(v) ==
  CASE v.t = "obj" -> v.o
    [] v.t = "arr" -> [i \in 1..Len(v.a) |-> <<NumToString(i - 1), v.a[i]>>]
    [] v.t = "str" -> [i \in 1..Len(v.s) |-> <<NumToString(i - 1), Str(<<v.s[i]>>)>>]
    [] OTHER -> <<>>

\* Object.keys(value)
Keys(v) == [i \in 1..Len(Entries(v)) |-> Entries(v)[i][1]]

LengthWord == <<"l", "e", "n", "g", "t", "h">>

\* A function, the value of a method
Function == [t |-> "fn"]

\* Names of the properties that every object inherits from Object.prototype
\* (three of them)
InheritedNames ==
  { <<"c", "o", "n", "s", "t", "r", "u", "c", "t", "o", "r">>,
    <<"t", "o", "S", "t", "r", "i", "n", "g">>,
    <<"v", "a", "l", "u", "e", "O", "f">> }

\* name in value, for an object or an array: own and inherited properties
HasKey(v, name) ==
  \/ \E i \in 1..Len(Entries(v)) : Entries(v)[i][1] = name
  \/ v.t = "arr" /\ name = LengthWord
  \/ v.t \in {"obj", "arr"} /\ name \in InheritedNames

\* value[name]
Lookup(v, name) ==
  IF v.t \in {"arr", "str"} /\ name = LengthWord
  THEN Num(Len(Entries(v)))
  ELSE IF \E i \in 1..Len(Entries(v)) : Entries(v)[i][1] = name
       THEN Entries(v)[CHOOSE i \in 1..Len(Entries(v)) : Entries(v)[i][1] = name][2]
       ELSE IF v.t \notin {"null", "undef"} /\ name \in InheritedNames THEN Function
       ELSE Undef

\* value !== null && value !== undefined ? String(value) : ''
Replacement(v) == IF v.t \in {"null", "undef"} THEN <<>> ELSE String(v)

\* ------------------------------------------------------------------------
\* Template markers
\* ------------------------------------------------------------------------

OpenBraces == <<"{", "{">>

CloseBraces == <<"}", "}">>

\* {{text}}
Marker(text) == OpenBraces \o text \o CloseBraces

IfWord == <<"i", "f">>

UnlessWord == <<"u", "n", "l", "e", "s", "s">>

blockType(isUnless) == IF isUnless THEN UnlessWord ELSE IfWord

\* {{#${blockType}
openTag(isUnless) == OpenBraces \o <<"#">> \o blockType(isUnless)

\* {{/${blockType}}}
closeTag(isUnless) == Marker(<<"/">> \o blockType(isUnless))

elseTag == Marker(<<"e", "l", "s", "e">>)

\* ------------------------------------------------------------------------
\* isTruthy
\* ------------------------------------------------------------------------

\* isTruthy with the string case comparing the untrimmed text
isTruthyUntrimmed(value) ==
  CASE value.t \in {"null", "undef"} -> FALSE
    [] value.t = "bool" -> value.b
    [] value.t = "str" -> value.s # <<>>
    [] value.t = "num" -> value.n # 0
    [] value.t = "arr" -> Len(value.a) > 0
    [] value.t = "obj" -> Len(value.o) > 0

isTruthy(value) ==
  CASE value.t \in {"null", "undef"} -> FALSE
    [] value.t = "bool" -> value.b
    [] value.t = "str" -> Trim(value.s) # <<>>
    [] value.t = "num" -> value.n # 0
    [] value.t = "arr" -> Len(value.a) > 0
    [] value.t = "obj" -> Len(value.o) > 0
    [] OTHER -> TRUE

\* ------------------------------------------------------------------------
\* processIfBlocks
\* ------------------------------------------------------------------------

\* A search for the closing tag that takes the end of the text for the
\* closing tag when there is none.
RECURSIVE FindCloseOrEnd(_, _, _, _, _)
FindCloseOrEnd(workingHtml, isUnless, depth, searchIndex, closeIndex) ==
  IF ~(depth > 0 /\ searchIndex < Len(workingHtml)) THEN closeIndex
  ELSE LET nextOpen == IndexOf(workingHtml, openTag(isUnless), searchIndex)
           nextClose == IndexOf(workingHtml, closeTag(isUnless), searchIndex)
       IN  IF nextClose = 0 - 1 THEN Len(workingHtml)
           ELSE IF nextOpen # 0 - 1 /\ nextOpen < nextClose
                THEN FindCloseOrEnd(workingHtml, isUnless, depth + 1,
                                    nextOpen + Len(openTag(isUnless)), closeIndex)
                ELSE FindCloseOrEnd(workingHtml, isUnless, depth - 1,
                                    nextClose + Len(closeTag(isUnless)),
                                    IF depth - 1 = 0 THEN nextClose ELSE closeIndex)

\* A search for the closing tag that does not count nested opening tags: it
\* pairs an opening tag with the first closing tag after it.
FindCloseFirst(workingHtml, isUnless, depth, searchIndex, closeIndex) ==
  IndexOf(workingHtml, closeTag(isUnless), searchIndex)

\* The depth scan for the closing tag that matches an opening tag: the value
\* of closeIndex when the scanning loop ends.
RECURSIVE FindClose(_, _, _, _, _)
FindClose(workingHtml, isUnless, depth, searchIndex, closeIndex) ==
  IF ~(depth > 0 /\ searchIndex < Len(workingHtml)) THEN closeIndex
  ELSE LET nextOpen == IndexOf(workingHtml, openTag(isUnless), searchIndex)
           nextClose == IndexOf(workingHtml, closeTag(isUnless), searchIndex)
       IN  IF nextClose = 0 - 1 THEN closeIndex
           ELSE IF nextOpen # 0 - 1 /\ nextOpen < nextClose
                THEN FindClose(workingHtml, isUnless, depth + 1,
                               nextOpen + Len(openTag(isUnless)), closeIndex)
                ELSE FindClose(workingHtml, isUnless, depth - 1,
                               nextClose + Len(closeTag(isUnless)),
                               IF depth - 1 = 0 THEN nextClose ELSE closeIndex)

\* An iteration that reports a change for the first opening tag and leaves
\* the block in the text.
IfBlocksPassKeeps(result, variables, isUnless) ==
  [changed |-> IndexOf(result, openTag(isUnless), 0) # 0 - 1, result |-> result]

\* One iteration of the outer loop of processIfBlocks on the text result:
\* [changed, result].  The inner loop never runs twice: each of its paths
\* ends in a break.
IfBlocksPass(result, variables, isUnless) ==
  LET workingHtml == result
      openIndex == IndexOf(workingHtml, openTag(isUnless), 0)
      openTagEnd == IndexOf(workingHtml, CloseBraces, openIndex) + 2
      openTagContent ==
        Trim(Substring(workingHtml, openIndex + Len(openTag(isUnless)), openTagEnd - 2))
      closeIndex == FindClose(workingHtml, isUnless, 1, openTagEnd, 0 - 1)
      blockContent == Substring(workingHtml, openTagEnd, closeIndex)
      elseIndex == IndexOf(blockContent, elseTag, 0)
      ifContent == IF elseIndex # 0 - 1 THEN Substring(blockContent, 0, elseIndex)
                   ELSE blockContent
      elseContent == IF elseIndex # 0 - 1
                     THEN SubstringFrom(blockContent, elseIndex + Len(elseTag))
                     ELSE <<>>
      variableValue == Lookup(variables, openTagContent)
      condition == IF isUnless THEN ~isTruthy(variableValue) ELSE isTruthy(variableValue)
      replacement == IF condition THEN ifContent ELSE elseContent
  IN  IF openIndex = 0 - 1 THEN [changed |-> FALSE, result |-> result]
      ELSE IF openTagEnd = 1 THEN [changed |-> FALSE, result |-> result]
      ELSE IF closeIndex = 0 - 1 THEN [changed |-> FALSE, result |-> result]
      ELSE [changed |-> TRUE,
            result |-> Substring(workingHtml, 0, openIndex) \o replacement
                       \o SubstringFrom(workingHtml, closeIndex + Len(closeTag(isUnless)))]

\* ------------------------------------------------------------------------
\* processArrayBlocks
\* ------------------------------------------------------------------------

\* The end of the run of [^}\s] characters that starts at position j.
RECURSIVE NameEnd(_, _)
NameEnd(s, j) ==
  IF j < Len(s) /\ s[j + 1] # "}" /\ ~IsSpace(s[j + 1]) THEN NameEnd(s, j + 1) ELSE j

\* /\{\{#([^}\s]+)\}\}([\s\S]*?)\{\{\/\1\}\}/ matches at position i: an
\* opening tag {{#name}} with a name of one or more characters that are
\* neither "}" nor white space, and the first {{/name}} after it.
BlockCloseIndex(s, i) ==
  LET e == NameEnd(s, i + 3)
  IN  IndexOf(s, Marker(<<"/">> \o Substring(s, i + 3, e)), e + 2)

BlockMatchesAt(s, i) ==
  /\ OccursAt(s, OpenBraces \o <<"#">>, i)
  /\ NameEnd(s, i + 3) > i + 3
  /\ OccursAt(s, CloseBraces, NameEnd(s, i + 3))
  /\ BlockCloseIndex(s, i) # 0 - 1

\* The match at position i: [index, fullMatch, name, content]
BlockMatch(s, i) ==
  LET e == NameEnd(s, i + 3)
      name == Substring(s, i + 3, e)
      c == BlockCloseIndex(s, i)
  IN  [index |-> i,
       fullMatch |-> Substring(s, i, c + Len(name) + 5),
       name |-> name,
       content |-> Substring(s, e + 2, c)]

\* The position of the first match at or after position from, or -1.
BlockSearch(s, from) ==
  LET c == {i \in from..Len(s) : BlockMatchesAt(s, i)}
  IN  IF c = {} THEN 0 - 1 ELSE Min(c)

\* One copy of the block body for element i (0-based) of the array.
\* Defined for an element that is not null: Object.entries(null) throws.
RECURSIVE ReplaceEntries(_, _, _)
ReplaceEntries(itemContent, entries, k) ==
  IF k > Len(entries) THEN itemContent
  ELSE ReplaceEntries(
         ReplaceAll(itemContent, KeyPattern(entries[k][1]), Replacement(entries[k][2])),
         entries, k + 1)

ItemContent(blockContent, arrayValue, i) ==
  LET item == arrayValue.a[i + 1]
      c0 == IF ~TypeofObject(item)
            THEN ReplaceAll(blockContent, LiteralPattern(Marker(<<".">>)), String(item))
            ELSE ReplaceEntries(blockContent, Entries(item), 1)
      c1 == ReplaceAll(c0, LiteralPattern(Marker(<<"@", "i", "n", "d", "e", "x">>)),
                       NumToString(i))
      c2 == ReplaceAll(c1, LiteralPattern(Marker(<<"@", "n", "u", "m", "b", "e", "r">>)),
                       NumToString(i + 1))
      c3 == ReplaceAll(c2, LiteralPattern(Marker(<<"@", "f", "i", "r", "s", "t">>)),
                       BoolToString(i = 0))
  IN  ReplaceAll(c3, LiteralPattern(Marker(<<"@", "l", "a", "s", "t">>)),
                 BoolToString(i = Len(arrayValue.a) - 1))

RECURSIVE ExpandedContent(_, _, _)
ExpandedContent(blockContent, arrayValue, i) ==
  IF i >= Len(arrayValue.a) THEN <<>>
  ELSE ItemContent(blockContent, arrayValue, i)
       \o ExpandedContent(blockContent, arrayValue, i + 1)

\* Object.entries(item) throws a TypeError for a null element.
ExpansionThrows(arrayValue) == \E i \in 1..Len(arrayValue.a) : arrayValue.a[i].t = "null"

\* ------------------------------------------------------------------------
\* extractTemplateVariables
\* ------------------------------------------------------------------------

\* Set.add on an insertion-ordered Set held as a duplicate-free sequence
SetAdd(set, x) == IF \E i \in 1..Len(set) : set[i] = x THEN set ELSE Append(set, x)

RECURSIVE SetAddAll(_, _)
SetAddAll(set, xs) == IF xs = <<>> THEN set ELSE SetAddAll(SetAdd(set, Head(xs)), Tail(xs))

\* The end of the run of [^}] characters that starts at position j.
RECURSIVE RunEnd(_, _)
RunEnd(s, j) == IF j < Len(s) /\ s[j + 1] # "}" THEN RunEnd(s, j + 1) ELSE j

\* /\{\{([^#\/@][^}]*)\}\}/ matches at position i
SimpleMatchesAt(s, i) ==
  /\ OccursAt(s, OpenBraces, i)
  /\ i + 2 < Len(s)
  /\ s[i + 3] \notin {"#", "/", "@"}
  /\ OccursAt(s, CloseBraces, RunEnd(s, i + 3))

startsWithAt(name) == name # <<>> /\ Head(name) = "@"

\* The exec loop over /\{\{([^#\/@][^}]*)\}\}/g from position from: the
\* trimmed names that are not else and do not start with "@", added to set.
RECURSIVE SimpleVariables(_, _, _)
SimpleVariables(s, from, set) ==
  LET c == {i \in from..Len(s) : SimpleMatchesAt(s, i)}
      i == Min(c)
      e == RunEnd(s, i + 3)
      variableName == Trim(Substring(s, i + 2, e))
  IN  IF c = {} THEN set
      ELSE SimpleVariables(s, e + 2,
             IF variableName # <<"e", "l", "s", "e">> /\ ~startsWithAt(variableName)
             THEN SetAdd(set, variableName) ELSE set)

reservedKeywords == {IfWord, UnlessWord, <<"e", "l", "s", "e">>}

\* extractArrayBlocks: the exec loop over the block pattern with the flag g.
RECURSIVE extractArrayBlocks(_, _)
extractArrayBlocks(s, from) ==
  LET i == BlockSearch(s, from)
      m == BlockMatch(s, i)
      rest == extractArrayBlocks(s, i + Len(m.fullMatch))
  IN  IF i = 0 - 1 THEN <<>>
      ELSE IF m.name \in reservedKeywords THEN rest
      ELSE <<[arrayName |-> m.name,
              innerVariables |-> SimpleVariables(m.content, 0, <<>>),
              fullMatch |-> m.fullMatch]>> \o rest

\* /\{\{#(?:if|unless)\s+([^}]+)\}\}/ matches at position i with the keyword
\* word: white space follows the keyword, at least two characters other than
\* "}" stand between the keyword and "}}" (one for \s+, one for the group).
ConditionalMatchesAt(s, i, word) ==
  LET j == i + 3 + Len(word)
  IN  /\ OccursAt(s, OpenBraces \o <<"#">> \o word, i)
      /\ j < Len(s)
      /\ IsSpace(s[j + 1])
      /\ RunEnd(s, j) - j >= 2
      /\ OccursAt(s, CloseBraces, RunEnd(s, j))

ConditionalWordAt(s, i) == IF ConditionalMatchesAt(s, i, IfWord) THEN IfWord ELSE UnlessWord

\* The exec loop over the conditional pattern from position from.
RECURSIVE ConditionalVariables(_, _, _)
ConditionalVariables(s, from, set) ==
  LET c == {i \in from..Len(s) :
              ConditionalMatchesAt(s, i, IfWord) \/ ConditionalMatchesAt(s, i, UnlessWord)}
      i == Min(c)
      j == i + 3 + Len(ConditionalWordAt(s, i))
      e == RunEnd(s, j)
  IN  IF c = {} THEN set
      ELSE ConditionalVariables(s, e + 2, SetAdd(set, Trim(Substring(s, j, e))))

\* Lines 262-264: every block is replaced by a placeholder of its name.
RECURSIVE CollapseBlocks(_, _)
CollapseBlocks(s, blocks) ==
  IF blocks = <<>> THEN s
  ELSE CollapseBlocks(ReplaceFirst(s, Head(blocks).fullMatch, Marker(Head(blocks).arrayName)),
                      Tail(blocks))

extractTemplateVariables(template) ==
  IF Falsy(template) \/ template.t # "str" THEN <<>>
  ELSE LET arrayBlocks == extractArrayBlocks(template.s, 0)
           names == [b \in 1..Len(arrayBlocks) |-> arrayBlocks[b].arrayName]
           collapsed == CollapseBlocks(template.s, arrayBlocks)
       IN  ConditionalVariables(collapsed, 0,
             SimpleVariables(collapsed, 0, SetAddAll(<<>>, names)))

\* ------------------------------------------------------------------------
\* JSON.parse, for the texts of the model: null, true, false, non-negative
\* integers, strings without escapes, arrays and objects
\* ------------------------------------------------------------------------

Failure == [ok |-> FALSE, v |-> Undef, i |-> 0]

RECURSIVE SkipWs(_, _)
SkipWs(s, i) ==
  IF i < Len(s) /\ s[i + 1] \in {" ", "\n", "\t", "\r"} THEN SkipWs(s, i + 1) ELSE i

Digits == {"0", "1", "2", "3", "4", "5", "6", "7", "8", "9"}

DigitValue(c) == CHOOSE d \in 0..9 : Digit(d) = c

RECURSIVE DigitsEnd(_, _)
DigitsEnd(s, i) == IF i < Len(s) /\ s[i + 1] \in Digits THEN DigitsEnd(s, i + 1) ELSE i

RECURSIVE DigitsValue(_)
DigitsValue(d) ==
  IF d = <<>> THEN 0 ELSE 10 * DigitsValue(SubSeq(d, 1, Len(d) - 1)) + DigitValue(d[Len(d)])

\* a string token that opens at position i: the closing quote, or -1
StringEnd(s, i) ==
  LET q == IndexOf(s, <<"\"">>, i + 1)
  IN  IF q = 0 - 1 \/ \E j \in (i + 1)..(q - 1) : s[j + 1] \in {"\\", "\n"} THEN 0 - 1 ELSE q

\* object members: a later duplicate key overwrites the value of the first
PutMember(o, key, v) ==
  IF \E j \in 1..Len(o) : o[j][1] = key
  THEN [j \in 1..Len(o) |-> IF o[j][1] = key THEN <<key, v>> ELSE o[j]]
  ELSE Append(o, <<key, v>>)

RECURSIVE ParseValue(_, _)
RECURSIVE ParseElements(_, _, _)
RECURSIVE ParseMembers(_, _, _)
ParseValue(s, start) ==
  LET i == SkipWs(s, start)
  IN  IF OccursAt(s, <<"n", "u", "l", "l">>, i) THEN [ok |-> TRUE, v |-> Null, i |-> i + 4]
      ELSE IF OccursAt(s, <<"t", "r", "u", "e">>, i)
           THEN [ok |-> TRUE, v |-> Bool(TRUE), i |-> i + 4]
      ELSE IF OccursAt(s, <<"f", "a", "l", "s", "e">>, i)
           THEN [ok |-> TRUE, v |-> Bool(FALSE), i |-> i + 5]
      ELSE IF i < Len(s) /\ s[i + 1] \in Digits
           THEN LET e == DigitsEnd(s, i)
                IN  IF s[i + 1] = "0" /\ e > i + 1 THEN Failure
                    ELSE [ok |-> TRUE, v |-> Num(DigitsValue(Substring(s, i, e))), i |-> e]
      ELSE IF i < Len(s) /\ s[i + 1] = "\""
           THEN LET q == StringEnd(s, i)
                IN  IF q = 0 - 1 THEN Failure
                    ELSE [ok |-> TRUE, v |-> Str(Substring(s, i + 1, q)), i |-> q + 1]
      ELSE IF i < Len(s) /\ s[i + 1] = "["
           THEN IF OccursAt(s, <<"]">>, SkipWs(s, i + 1))
                THEN [ok |-> TRUE, v |-> Arr(<<>>), i |-> SkipWs(s, i + 1) + 1]
                ELSE ParseElements(s, i + 1, <<>>)
      ELSE IF i < Len(s) /\ s[i + 1] = "{"
           THEN IF OccursAt(s, <<"}">>, SkipWs(s, i + 1))
                THEN [ok |-> TRUE, v |-> Obj(<<>>), i |-> SkipWs(s, i + 1) + 1]
                ELSE ParseMembers(s, i + 1, <<>>)
      ELSE Failure
ParseElements(s, start, acc) ==
  LET r == ParseValue(s, start)
      i == SkipWs(s, r.i)
  IN  IF ~r.ok THEN Failure
      ELSE IF OccursAt(s, <<"]">>, i) THEN [ok |-> TRUE, v |-> Arr(Append(acc, r.v)), i |-> i + 1]
      ELSE IF OccursAt(s, <<",">>, i) THEN ParseElements(s, i + 1, Append(acc, r.v))
      ELSE Failure
ParseMembers(s, start, acc) ==
  LET i == SkipWs(s, start)
      q == StringEnd(s, i)
      c == SkipWs(s, q + 1)
      r == ParseValue(s, c + 1)
      e == SkipWs(s, r.i)
  IN  IF ~OccursAt(s, <<"\"">>, i) \/ q = 0 - 1 \/ ~OccursAt(s, <<":">>, c) THEN Failure
      ELSE IF ~r.ok THEN Failure
      ELSE IF OccursAt(s, <<"}">>, e)
           THEN [ok |-> TRUE, v |-> Obj(PutMember(acc, Substring(s, i + 1, q), r.v)), i |-> e + 1]
      ELSE IF OccursAt(s, <<",">>, e)
           THEN ParseMembers(s, e + 1, PutMember(acc, Substring(s, i + 1, q), r.v))
      ELSE Failure

\* JSON.parse(text): [ok, v]; ok is false where JSON.parse throws.
JSONParse(text) ==
  LET r == ParseValue(text, 0)
  IN  IF r.ok /\ SkipWs(text, r.i) = Len(text) THEN [ok |-> TRUE, v |-> r.v]
      ELSE [ok |-> FALSE, v |-> Undef]

\* ------------------------------------------------------------------------
\* validateTemplateVariables
\* ------------------------------------------------------------------------

\* Lines 341-347: a string argument is parsed; a parse error gives {}.
ParsedOrEmpty(r) == IF r.ok THEN r.v ELSE Obj(<<>>)

\* Lines 340-347: vars after the default and the parse of a string argument
ValidationVars(variablesArg) ==
  IF Falsy(variablesArg) THEN Obj(<<>>)
  ELSE IF variablesArg.t = "str" THEN ParsedOrEmpty(JSONParse(variablesArg.s))
  ELSE variablesArg

\* Lines 349-361: the filter callback
IsMissing(vars, varName) ==
  \/ ~HasKey(vars, varName)
  \/ Lookup(vars, varName).t \in {"undef", "null"}
  \/ Lookup(vars, varName).t = "arr" /\ Len(Lookup(vars, varName).a) = 0

RECURSIVE Filter(_, _)
Filter(vars, requiredVars) ==
  IF requiredVars = <<>> THEN <<>>
  ELSE (IF IsMissing(vars, Head(requiredVars)) THEN <<Head(requiredVars)>> ELSE <<>>)
       \o Filter(vars, Tail(requiredVars))

\* Lines 349-368 on vars.  threw: line 352, "varName in vars", throws a
\* TypeError when vars is a primitive, and line 366, Object.keys(vars), when
\* vars is null; the other fields are the record returned otherwise.
ValidationResult(vars, requiredVars) ==
  IF \/ requiredVars # <<>> /\ vars.t \notin {"obj", "arr"}
     \/ vars.t \in {"null", "undef"}
  THEN [threw |-> TRUE, isValid |-> FALSE, missing |-> <<>>, provided |-> <<>>,
        required |-> requiredVars]
  ELSE [threw |-> FALSE,
        isValid |-> Len(Filter(vars, requiredVars)) = 0,
        missing |-> Filter(vars, requiredVars),
        provided |-> Keys(vars),
        required |-> requiredVars]

validateTemplateVariables(variablesArg, requiredVars) ==
  ValidationResult(ValidationVars(variablesArg), requiredVars)

\* ------------------------------------------------------------------------
\* sanitizeTemplateVariables
\* ------------------------------------------------------------------------

Escape(text, char, entity) == ReplaceAll(text, LiteralPattern(<<char>>), entity)

\* The replacements of lines 389-401 with that of the ampersand moved to the
\* end, so that it meets the entities the earlier ones produced
sanitizeAmpersandLast(value, skipQuoteEscaping) ==
  LET b == Escape(value, "<", <<"&", "l", "t", ";">>)
      c == Escape(b, ">", <<"&", "g", "t", ";">>)
      d == IF skipQuoteEscaping THEN c
           ELSE Escape(Escape(c, "\"", <<"&", "q", "u", "o", "t", ";">>),
                       Apostrophe, <<"&", "#", "3", "9", ";">>)
  IN  Escape(d, "&", <<"&", "a", "m", "p", ";">>)

\* Lines 389-401
sanitizeString(value, skipQuoteEscaping) ==
  LET a == Escape(value, "&", <<"&", "a", "m", "p", ";">>)
      b == Escape(a, "<", <<"&", "l", "t", ";">>)
      c == Escape(b, ">", <<"&", "g", "t", ";">>)
  IN  IF skipQuoteEscaping THEN c
      ELSE Escape(Escape(c, "\"", <<"&", "q", "u", "o", "t", ";">>),
                  Apostrophe, <<"&", "#", "3", "9", ";">>)

RECURSIVE sanitizeValue(_, _)
RECURSIVE sanitizeObject(_, _)
sanitizeValue(value, skipQuoteEscaping) ==
  CASE value.t = "str" -> Str(sanitizeString(value.s, skipQuoteEscaping))
    [] value.t = "arr" ->
         Arr([i \in 1..Len(value.a) |->
                IF value.a[i].t \in {"arr", "obj"}
                THEN sanitizeObject(value.a[i], skipQuoteEscaping)
                ELSE sanitizeValue(value.a[i], skipQuoteEscaping)])
    [] value.t = "obj" -> sanitizeObject(value, skipQuoteEscaping)
    [] OTHER -> value
\* Object.entries(obj) into a fresh object: an array given here comes back
\* as an object keyed by its indices.
sanitizeObject(obj, skipQuoteEscaping) ==
  Obj([i \in 1..Len(Entries(obj)) |->
         <<Entries(obj)[i][1], sanitizeValue(Entries(obj)[i][2], skipQuoteEscaping)>>])

sanitizeTemplateVariables(variablesArg, skipQuoteEscaping) ==
  IF Falsy(variablesArg) \/ ~TypeofObject(variablesArg) THEN Obj(<<>>)
  ELSE sanitizeObject(variablesArg, skipQuoteEscaping)

\* ------------------------------------------------------------------------
\* State
\* ------------------------------------------------------------------------

VARIABLES
  op,             \* the entry point: "call" (processTemplate called directly),
                  \* "twice" (processTemplate called on its own result),
                  \* "extract", "validate", "sanitize" (the function of
                  \* that name called directly),
                  \* "render" (handleTemplateRender), "preview" (handleTemplatePreview)
  request,        \* the request body, or the arguments of a direct call:
                  \* [template, variables, sanitize, returnUrl, required]
  html,           \* the template argument of processTemplate (a value)
  variables,      \* the variables argument of processTemplate (a value)
  pc,             \* the position in the handler and in processTemplate
  processedHtml,  \* the text being rewritten (result in the block loops)
  stack,          \* the text before of each suspended processArrayBlocks call
  k,              \* the next entry of Object.entries(variables) to substitute
  rendered,       \* the texts handed to generateImage, in order
  stored,         \* the number of images put into the object store
  response,       \* the response: [status, kind]
  previous,       \* the outcome of a first call when a second one follows it;
                  \* for "twice": the results of the calls of processTemplate that have returned
                  \* and whose result was passed to a further call
  returned,       \* what extractTemplateVariables, validateTemplateVariables or
                  \* sanitizeTemplateVariables returned
  thrown,         \* the error that processTemplate or validateTemplateVariables
                  \* threw: "none", "InvalidTemplate" (line 14) or "TypeError"
  browser         \* the rendering backend of the request: [outcome, image,
                  \* browsers, pages], the last two counting what is open

vars ==
  <<op, request, html, variables, pc, processedHtml, stack, k, rendered, stored, response,
    previous, returned, thrown, browser>>

input == <<op, request, html, variables>>

output == <<rendered, stored, response, previous, returned, thrown, browser>>

\* The outputs other than the error thrown
effects == <<rendered, stored, response, previous, returned, browser>>

\* ------------------------------------------------------------------------
\* processTemplate, one action per loop iteration
\* ------------------------------------------------------------------------

\* Lines 12-24: the default of the variables parameter and the argument
\* checks.
Enter ==
  /\ pc = "start"
  /\ variables' = (IF variables.t = "undef" THEN Obj(<<>>) ELSE variables)
  /\ IF Falsy(html) \/ html.t # "str"
     THEN pc' = "threw" /\ processedHtml' = <<>> /\ thrown' = "InvalidTemplate"
     ELSE IF Falsy(variables') \/ ~TypeofObject(variables')
          THEN pc' = "done" /\ processedHtml' = html.s /\ thrown' = thrown
          ELSE pc' = "arrays" /\ processedHtml' = html.s /\ thrown' = thrown
  /\ UNCHANGED <<op, request, html, effects, stack, k>>

\* The first match at or after position from whose name is an array or a
\* conditional word: a search that goes past the blocks of other values
RECURSIVE BlockSearchArrays(_, _, _)
BlockSearchArrays(s, vs, from) ==
  IF BlockSearch(s, from) = 0 - 1 THEN 0 - 1
  ELSE IF \/ BlockMatch(s, BlockSearch(s, from)).name \in {IfWord, UnlessWord}
          \/ Lookup(vs, BlockMatch(s, BlockSearch(s, from)).name).t = "arr"
       THEN BlockSearch(s, from)
       ELSE BlockSearchArrays(s, vs, BlockSearch(s, from) + 1)

ArrayMatchIndexPast == BlockSearchArrays(processedHtml, variables, 0)

\* processArrayBlocks: the match of this iteration
ArrayMatchIndex == BlockSearch(processedHtml, 0)

ArrayMatch == BlockMatch(processedHtml, ArrayMatchIndex)

ArrayIsConditional == ArrayMatch.name = IfWord \/ ArrayMatch.name = UnlessWord

\* Lines 82-90: the match is {{#if}}...{{/if}} or {{#unless}}...{{/unless}}:
\* the text after it is processed by a recursive call.
ArraySkipConditional ==
  /\ pc = "arrays"
  /\ ArrayMatchIndex # 0 - 1
  /\ ArrayIsConditional
  /\ LET matchIndex == IndexOf(processedHtml, ArrayMatch.fullMatch, 0)
         before == Substring(processedHtml, 0, matchIndex + Len(ArrayMatch.fullMatch))
         after == SubstringFrom(processedHtml, matchIndex + Len(ArrayMatch.fullMatch))
     IN  /\ stack' = Append(stack, before)
         /\ processedHtml' = after
  /\ UNCHANGED <<input, output, pc, k>>

\* Lines 78-96: there is a match, it is no conditional block, its name is an
\* array, and expanding it does not throw
ArrayExpands ==
  /\ ArrayMatchIndex # 0 - 1
  /\ ~ArrayIsConditional
  /\ Lookup(variables, ArrayMatch.name).t = "arr"
  /\ ~ExpansionThrows(Lookup(variables, ArrayMatch.name))

\* Line 124: the text with the block replaced by its expansion
ArrayExpansion ==
  ReplaceFirst(processedHtml, ArrayMatch.fullMatch,
               ExpandedContent(ArrayMatch.content, Lookup(variables, ArrayMatch.name), 0))

\* Lines 92-126: the name is an array: the block is replaced by its expansion
\* and the loop goes round again.
ArrayExpand ==
  /\ pc = "arrays"
  /\ ArrayExpands
  /\ processedHtml' = ArrayExpansion
  /\ UNCHANGED <<input, output, pc, stack, k>>

\* Line 108 on a null element: Object.entries(null) throws a TypeError, which
\* nothing in processTemplate catches.
ArrayThrow ==
  /\ pc = "arrays"
  /\ ArrayMatchIndex # 0 - 1
  /\ ~ArrayIsConditional
  /\ Lookup(variables, ArrayMatch.name).t = "arr"
  /\ ExpansionThrows(Lookup(variables, ArrayMatch.name))
  /\ pc' = "threw"
  /\ thrown' = "TypeError"
  /\ UNCHANGED <<input, effects, processedHtml, stack, k>>

\* Lines 78, 95, 127: no match, or a first match whose name is no array:
\* changed stays false and the loop ends.
ArrayLoopExit ==
  /\ pc = "arrays"
  /\ \/ ArrayMatchIndex = 0 - 1
     \/ /\ ~ArrayIsConditional
        /\ Lookup(variables, ArrayMatch.name).t # "arr"
  /\ pc' = "arraysReturn"
  /\ UNCHANGED <<input, output, processedHtml, stack, k>>

\* Lines 87-89 and 131: a recursive call returns into before + processedAfter
\* and the caller's loop ends at its continue (changed is false); the
\* outermost call returns to processConditionalBlocks.
ArrayReturn ==
  /\ pc = "arraysReturn"
  /\ IF stack # <<>>
     THEN /\ processedHtml' = stack[Len(stack)] \o processedHtml
          /\ stack' = SubSeq(stack, 1, Len(stack) - 1)
          /\ pc' = pc
     ELSE /\ pc' = "if"
          /\ UNCHANGED <<processedHtml, stack>>
  /\ UNCHANGED <<input, output, k>>

\* processIfBlocks: an iteration of the outer loop that replaces a block.
IfBlocksResolve(isUnless) ==
  /\ pc = (IF isUnless THEN "unless" ELSE "if")
  /\ IfBlocksPass(processedHtml, variables, isUnless).changed
  /\ processedHtml' = IfBlocksPass(processedHtml, variables, isUnless).result
  /\ UNCHANGED <<input, output, pc, stack, k>>

\* The end of the loop of processIfBlocks with the call for unless blocks
\* left out of processConditionalBlocks
IfBlocksExitSkips(isUnless) ==
  /\ pc = (IF isUnless THEN "unless" ELSE "if")
  /\ ~IfBlocksPass(processedHtml, variables, isUnless).changed
  /\ pc' = "subst"
  /\ UNCHANGED <<input, output, processedHtml, stack, k>>

\* processIfBlocks: an iteration that changes nothing ends the loop.
IfBlocksExit(isUnless) ==
  /\ pc = (IF isUnless THEN "unless" ELSE "if")
  /\ ~IfBlocksPass(processedHtml, variables, isUnless).changed
  /\ pc' = (IF isUnless THEN "subst" ELSE "unless")
  /\ UNCHANGED <<input, output, processedHtml, stack, k>>

\* Lines 27-31: one round of the forEach over Object.entries(variables).
Substitute ==
  /\ pc = "subst"
  /\ k <= Len(Entries(variables))
  /\ processedHtml' =
       ReplaceAll(processedHtml, KeyPattern(Entries(variables)[k][1]),
                  Replacement(Entries(variables)[k][2]))
  /\ k' = k + 1
  /\ UNCHANGED <<input, output, pc, stack>>

\* Line 33
Return ==
  /\ pc = "subst"
  /\ k > Len(Entries(variables))
  /\ pc' = "done"
  /\ UNCHANGED <<input, output, processedHtml, stack, k>>

ProcessNext ==
  \/ Enter
  \/ ArraySkipConditional
  \/ ArrayExpand
  \/ ArrayThrow
  \/ ArrayLoopExit
  \/ ArrayReturn
  \/ IfBlocksResolve(FALSE)
  \/ IfBlocksExit(FALSE)
  \/ IfBlocksResolve(TRUE)
  \/ IfBlocksExit(TRUE)
  \/ Substitute
  \/ Return

\* processTemplate(processTemplate(t, v), v): the result of the first call
\* is the template of a second call with the same variables.
Reapply ==
  /\ op = "twice"
  /\ pc = "done"
  /\ previous = <<>>
  /\ previous' = <<processedHtml>>
  /\ html' = Str(processedHtml)
  /\ pc' = "start"
  /\ processedHtml' = <<>>
  /\ stack' = <<>>
  /\ k' = 1
  /\ UNCHANGED <<op, request, variables, rendered, stored, response, returned, thrown, browser>>

ProcessTwiceNext == ProcessNext \/ Reapply

\* extractTemplateVariables(template), called directly
ExtractCall ==
  /\ op = "extract"
  /\ pc = "request"
  /\ returned' = extractTemplateVariables(request.template)
  /\ pc' = "done"
  /\ UNCHANGED <<input, processedHtml, stack, k, rendered, stored, response, previous, thrown,
                 browser>>

\* validateTemplateVariables(variables, requiredVars), called directly
ValidateCall ==
  /\ op = "validate"
  /\ pc = "request"
  /\ returned' = validateTemplateVariables(request.variables, request.required)
  /\ pc' = (IF returned'.threw THEN "threw" ELSE "done")
  /\ thrown' = (IF returned'.threw THEN "TypeError" ELSE thrown)
  /\ UNCHANGED <<input, processedHtml, stack, k, rendered, stored, response, previous, browser>>

\* A sanitization that escapes the strings of its argument in place: the
\* caller's mapping is the result
SanitizeCallInPlace ==
  /\ op = "sanitize"
  /\ pc = "request"
  /\ returned' = sanitizeTemplateVariables(request.variables, ~request.sanitize)
  /\ request' = [request EXCEPT !.variables = returned']
  /\ pc' = "done"
  /\ UNCHANGED <<op, html, variables, processedHtml, stack, k, rendered, stored, response,
                 previous, thrown, browser>>

\* sanitizeTemplateVariables(variables, { skipQuoteEscaping }), called
\* directly; the option is the negation of the field sanitize of the call.
SanitizeCall ==
  /\ op = "sanitize"
  /\ pc = "request"
  /\ returned' = sanitizeTemplateVariables(request.variables, ~request.sanitize)
  /\ pc' = "done"
  /\ UNCHANGED <<input, processedHtml, stack, k, rendered, stored, response, previous, thrown,
                 browser>>

\* What a direct call has come to: its position, the text of processTemplate,
\* the value returned by the other functions, and the error thrown
Outcome == [pc |-> pc, text |-> processedHtml, value |-> returned, thrown |-> thrown]

\* A function that has returned or thrown is called once more with the
\* arguments of the first call, as the first call has left them.
Recall ==
  /\ op \in {"call", "extract", "validate", "sanitize"}
  /\ pc \in {"done", "threw"}
  /\ previous = <<>>
  /\ previous' = <<Outcome>>
  /\ html' = (IF op = "call" THEN request.template ELSE Undef)
  /\ variables' = (IF op = "call" THEN request.variables ELSE Undef)
  /\ pc' = (IF op = "call" THEN "start" ELSE "request")
  /\ processedHtml' = <<>>
  /\ stack' = <<>>
  /\ k' = 1
  /\ returned' = Undef
  /\ thrown' = "none"
  /\ UNCHANGED <<op, request, rendered, stored, response, browser>>

\* The four exported functions, each called directly and then once more
PureNext ==
  \/ ProcessNext
  \/ ExtractCall
  \/ ValidateCall
  \/ SanitizeCall
  \/ Recall

\* ------------------------------------------------------------------------
\* handleTemplateRender and handleTemplatePreview
\* ------------------------------------------------------------------------

NoResponse == [status |-> 0, kind |-> "none"]

\* createErrorResponse(message, 400)
ErrorResponse(message) == [status |-> 400, kind |-> "error", message |-> message]

\* A message: a fixed text followed by names
Message(text, names) == [text |-> text, names |-> names]

\* array.join(', ') of an array of strings
RECURSIVE JoinNames(_)
JoinNames(names) ==
  IF names = <<>> THEN <<>>
  ELSE IF Len(names) = 1 THEN Head(names)
  ELSE Head(names) \o <<",", " ">> \o JoinNames(Tail(names))

\* The body's variables with the default of the destructuring ({} when the
\* body has none).
RequestVariables == IF request.variables.t = "undef" THEN Obj(<<>>) ELSE request.variables

\* Lines 250 and 314
ProcessedVariables ==
  IF request.sanitize THEN sanitizeTemplateVariables(RequestVariables, TRUE)
  ELSE RequestVariables

\* The rejections of lines 236-247 without that of line 245: a request whose
\* validation names a missing variable goes on to processTemplate
RejectedUnvalidated(endpoint, template, validation) ==
  \/ Falsy(template)
  \/ validation.threw

\* index.js lines 236-247 and 305-311: the request is answered with 400
\* when it has no template, when validateTemplateVariables threw (into the
\* handler's catch block) and, at the render endpoint only, when the
\* validation names a missing variable.
Rejected(endpoint, template, validation) ==
  \/ Falsy(template)
  \/ validation.threw
  \/ endpoint = "render" /\ ~validation.isValid

\* index.js lines 237, 246 and 294: the message of the 400 response
RejectionMessage(template, validation) ==
  IF Falsy(template) THEN Message("Template HTML is required", <<>>)
  ELSE IF validation.threw THEN Message("TypeError", <<>>)
  ELSE Message("Missing required variables: ", JoinNames(validation.missing))

\* The rendering backend before generateImage is called
NoBrowser == [outcome |-> "none", image |-> "none", browsers |-> 0, pages |-> 0]

\* index.js lines 223-253 and 302-315: from the parsed body to the call of
\* processTemplate.
HandlerEnter ==
  /\ pc = "request"
  /\ op \in {"render", "preview"}
  /\ IF Rejected(op, request.template,
                 validateTemplateVariables(RequestVariables,
                                           extractTemplateVariables(request.template)))
     THEN /\ response' =
               ErrorResponse(RejectionMessage(request.template,
                 validateTemplateVariables(RequestVariables,
                                           extractTemplateVariables(request.template))))
          /\ thrown' =
               (IF ~Falsy(request.template)
                   /\ validateTemplateVariables(RequestVariables,
                        extractTemplateVariables(request.template)).threw
                THEN "TypeError" ELSE thrown)
          /\ pc' = "responded"
          /\ UNCHANGED <<html, variables>>
     ELSE /\ html' = request.template
          /\ variables' = ProcessedVariables
          /\ pc' = "start"
          /\ UNCHANGED <<response, thrown>>
  /\ UNCHANGED <<op, request, processedHtml, stack, k, rendered, stored, previous, returned,
                 browser>>

\* index.js lines 317-328: the preview's response, or the 400 of its catch
\* block when processTemplate threw.
PreviewRespond ==
  /\ op = "preview"
  /\ pc \in {"done", "threw"}
  /\ response' = (IF pc = "threw" THEN ErrorResponse(Message(thrown, <<>>))
                  ELSE [status |-> 200, kind |-> "preview"])
  /\ pc' = "responded"
  /\ UNCHANGED <<input, processedHtml, stack, k, rendered, stored, previous, returned, thrown,
                 browser>>

\* index.js lines 292-295: processTemplate threw inside handleTemplateRender.
RenderCatch ==
  /\ op = "render"
  /\ pc = "threw"
  /\ response' = ErrorResponse(Message(thrown, <<>>))
  /\ pc' = "responded"
  /\ UNCHANGED <<input, processedHtml, stack, k, rendered, stored, previous, returned, thrown,
                 browser>>

\* The steps of generateImage that can raise an error: puppeteer.launch,
\* newPage, setContent (the page load) and screenshot
BackendFailures == {"launch", "newPage", "setContent", "screenshot"}

\* index.js lines 364-446 with the outcome "ok" or the step that raised an
\* error.  Without an error the screenshot is returned and the page and
\* the browser are closed (lines 431-434).  An error is caught at line 438:
\* the mock buffer of lines 443-444 is returned, and what was opened
\* before the error stays open, since only lines 432-433 close anything.
Backend(outcome) ==
  [outcome |-> outcome,
   image |-> (IF outcome = "ok" THEN "screenshot" ELSE "mock"),
   browsers |-> (IF outcome \in {"newPage", "setContent", "screenshot"} THEN 1 ELSE 0),
   pages |-> (IF outcome \in {"setContent", "screenshot"} THEN 1 ELSE 0)]

\* index.js lines 256-262 and 364-446: generateImage receives the processed
\* text and returns image bytes: the screenshot, or the mock buffer of its
\* catch block when the browser failed.
GenerateImage ==
  /\ op = "render"
  /\ pc = "done"
  /\ rendered' = Append(rendered, processedHtml)
  /\ \E outcome \in {"ok"} \cup BackendFailures : browser' = Backend(outcome)
  /\ pc' = "generated"
  /\ UNCHANGED <<input, processedHtml, stack, k, stored, response, previous, returned, thrown>>

\* index.js lines 265-287: with returnUrl and a bucket the image is uploaded
\* and its URL returned; a failed upload throws into the catch block.
StoreAndRespond ==
  /\ pc = "generated"
  /\ request.returnUrl
  /\ \/ stored' = stored + 1 /\ response' = [status |-> 200, kind |-> "url"]
     \/ stored' = stored
        /\ response' = ErrorResponse(Message("Failed to upload image to R2 storage", <<>>))
  /\ pc' = "responded"
  /\ UNCHANGED <<input, processedHtml, stack, k, rendered, previous, returned, thrown, browser>>

\* index.js line 291: the image bytes are the response.
ImageRespond ==
  /\ pc = "generated"
  /\ ~request.returnUrl
  /\ response' = [status |-> 200, kind |-> "image"]
  /\ pc' = "responded"
  /\ UNCHANGED <<input, processedHtml, stack, k, rendered, stored, previous, returned, thrown,
                 browser>>

Next ==
  \/ ProcessNext
  \/ HandlerEnter
  \/ PreviewRespond
  \/ RenderCatch
  \/ GenerateImage
  \/ StoreAndRespond
  \/ ImageRespond

\* ------------------------------------------------------------------------
\* Inputs
\* ------------------------------------------------------------------------

\* {{#if name}}
If(name) == Marker(<<"#">> \o IfWord \o <<" ">> \o name)

\* {{#unless name}}
Unless(name) == Marker(<<"#">> \o UnlessWord \o <<" ">> \o name)

\* {{#if name}} or {{#unless name}}
OpenCond(isUnless, name) == IF isUnless THEN Unless(name) ELSE If(name)

\* {{#name}}
Open(name) == Marker(<<"#">> \o name)

\* {{/name}}
Close(name) == Marker(<<"/">> \o name)

\* {{.}}
Dot == Marker(<<".">>)

\* A direct call processTemplate(template, variablesArg)
Call(template, variablesArg) ==
  [op |-> "call", template |-> template, variables |-> variablesArg,
   sanitize |-> FALSE, returnUrl |-> FALSE, required |-> <<>>]

\* processTemplate(processTemplate(template, variablesArg), variablesArg)
Twice(template, variablesArg) ==
  [op |-> "twice", template |-> template, variables |-> variablesArg,
   sanitize |-> FALSE, returnUrl |-> FALSE, required |-> <<>>]

\* extractTemplateVariables(template)
Extract(template) ==
  [op |-> "extract", template |-> template, variables |-> Undef,
   sanitize |-> FALSE, returnUrl |-> FALSE, required |-> <<>>]

\* validateTemplateVariables(variablesArg, requiredVars)
Validate(variablesArg, requiredVars) ==
  [op |-> "validate", template |-> Undef, variables |-> variablesArg,
   sanitize |-> FALSE, returnUrl |-> FALSE, required |-> requiredVars]

\* sanitizeTemplateVariables(variablesArg, { skipQuoteEscaping })
Sanitize(variablesArg, skipQuoteEscaping) ==
  [op |-> "sanitize", template |-> Undef, variables |-> variablesArg,
   sanitize |-> ~skipQuoteEscaping, returnUrl |-> FALSE, required |-> <<>>]

\* A request to an endpoint
Request(endpoint, template, variablesArg, sanitize, returnUrl) ==
  [op |-> endpoint, template |-> template, variables |-> variablesArg,
   sanitize |-> sanitize, returnUrl |-> returnUrl, required |-> <<>>]

\* The state after construction for one input
Start(c) ==
  /\ op = c.op
  /\ request = [template |-> c.template, variables |-> c.variables,
                sanitize |-> c.sanitize, returnUrl |-> c.returnUrl,
                required |-> c.required]
  /\ html = (IF c.op \in {"call", "twice"} THEN c.template ELSE Undef)
  /\ variables = (IF c.op \in {"call", "twice"} THEN c.variables ELSE Undef)
  /\ pc = (IF c.op \in {"call", "twice"} THEN "start" ELSE "request")
  /\ processedHtml = <<>>
  /\ stack = <<>>
  /\ k = 1
  /\ rendered = <<>>
  /\ stored = 0
  /\ response = NoResponse
  /\ previous = <<>>
  /\ returned = Undef
  /\ thrown = "none"
  /\ browser = NoBrowser

RECURSIVE Concat(_)
Concat(parts) == IF parts = <<>> THEN <<>> ELSE Head(parts) \o Concat(Tail(parts))

\* All sequences over S of length at most n
SeqsUpTo(S, n) == UNION {[1..m -> S] : m \in 0..n}

\* Inputs that between them reach every position of processTemplate: the
\* examples of the specification's section 8 and the engine's corner paths.
BaseTemplates ==
  { <<"<">> \o Marker(<<"t">>) \o <<">">> \o If(<<"s">>) \o Marker(<<"m">>) \o closeTag(FALSE)
      \o Unless(<<"s">>) \o <<"n">> \o closeTag(TRUE),
    Open(<<"i">>) \o Marker(<<"@", "n", "u", "m", "b", "e", "r">>) \o <<":">> \o Dot
      \o Close(<<"i">>),
    Open(IfWord) \o <<"q">> \o Close(IfWord) \o Open(<<"i">>) \o Dot \o Close(<<"i">>),
    Open(<<"p">>) \o Marker(<<"n">>) \o Close(<<"p">>) }

BaseVariables ==
  { Obj(<< <<<<"t">>, Str(<<"H">>)>>, <<<<"s">>, Bool(TRUE)>>, <<<<"m">>, Str(<<"W">>)>>,
          <<<<"i">>, Arr(<<Str(<<"x">>), Str(<<"y">>)>>)>>,
          <<<<"p">>, Arr(<<Obj(<< <<<<"n">>, Str(<<"A">>)>> >>)>>)>> >>),
    Obj(<< <<<<"t">>, Num(0)>>, <<<<"s">>, Bool(FALSE)>>,
          <<<<"i">>, Arr(<<Num(1)>>)>>, <<<<"p">>, Arr(<<Null>>)>> >>),
    Null }

BaseCalls == {Call(Str(t), v) : t \in BaseTemplates, v \in BaseVariables}

BaseRequests ==
  {Request(e, Str(t), v, sz, u) :
     e \in {"render", "preview"}, t \in BaseTemplates, v \in BaseVariables,
     sz \in BOOLEAN, u \in BOOLEAN}

\* Templates without markup characters: a placeholder in text, and
\* iteration blocks over plain elements and over objects
MarkupTemplates ==
  { <<"h", "=">> \o Marker(<<"v">>),
    Open(<<"i">>) \o Dot \o <<",">> \o Close(<<"i">>),
    Open(<<"o">>) \o Marker(<<"p">>) \o Close(<<"o">>) }

\* Text with each of the characters that sanitization is about
MarkupValues ==
  { Str(<<"x">>), Str(<<"<", "b", ">">>), Str(<<"\"">>), Str(<<Apostrophe>>),
    Str(<<"&">>), Str(<<"\"", ">", "<">>) }

\* Mappings that give every name of the templates a value
MarkupVariables ==
  { Obj(<< <<<<"v">>, v>>, <<<<"i">>, Arr(<<w, v>>)>>,
           <<<<"o">>, Arr(<<Obj(<< <<<<"p">>, v>> >>)>>)>> >>) :
      v \in MarkupValues, w \in {Num(1), Str(<<"<">>)} }

MarkupRequests ==
  {Request(e, Str(t), v, sz, FALSE) :
     e \in {"render", "preview"}, t \in MarkupTemplates, v \in MarkupVariables,
     sz \in BOOLEAN}

Init == \E c \in BaseCalls \cup BaseRequests \cup MarkupRequests : Start(c)

Spec == Init /\ [][Next]_vars

\* ------------------------------------------------------------------------
\* Conditional blocks: inputs
\* ------------------------------------------------------------------------

\* {{#if X}}T{{else}}E{{/if}}, {{#unless X}}T{{else}}E{{/unless}}, and the
\* same without {{else}}E
CondBlock(isUnless, X, T, E, hasElse) ==
  OpenCond(isUnless, X) \o T \o (IF hasElse THEN elseTag \o E ELSE <<>>) \o closeTag(isUnless)

\* A name that the mappings supply, and one that no mapping supplies and
\* that objects inherit from Object.prototype
CondNames == {<<"x">>, <<"c", "o", "n", "s", "t", "r", "u", "c", "t", "o", "r">>}

\* Branch texts without markers
CondTexts == {<<>>, <<"T">>, <<"E", " ">>}

\* One value of every kind of the data model, on both sides of every case of
\* the truthiness rule
CondValues ==
  { Null, Bool(TRUE), Bool(FALSE),
    Str(<<>>), Str(<<" ">>), Str(<<" ", "\n">>), Str(<<" ", "x">>), Str(<<"0">>),
    Num(0), Num(1), Num(20),
    Arr(<<>>), Arr(<<Num(0)>>), Arr(<<Str(<<>>), Null>>),
    Obj(<<>>), Obj(<< <<<<"x">>, Bool(FALSE)>> >>) }

\* The mappings that give X a value, and the mapping where X is absent
CondVariables(X) == {Obj(<< <<X, v>> >>) : v \in CondValues} \cup {Obj(<<>>)}

CondCalls ==
  {Call(Str(CondBlock(u, X, T, E, e)), v) :
     u \in BOOLEAN, X \in CondNames, T \in CondTexts, E \in CondTexts, e \in BOOLEAN,
     v \in CondVariables(<<"x">>)}

\* The deepest nesting of blocks of one type
MaxDepth == 3

GuardNames == {<<"a">>, <<"b">>}

\* Blocks of one type nested in each other without {{else}}, one per guard
\* of gs, around the text X; each level brackets what it encloses.
RECURSIVE Chain(_, _)
Chain(isUnless, gs) ==
  IF gs = <<>> THEN <<"X">>
  ELSE OpenCond(isUnless, Head(gs)) \o <<"(">> \o Chain(isUnless, Tail(gs)) \o <<")">>
       \o closeTag(isUnless)

\* Two sibling chains
Siblings(isUnless, gs1, gs2) == Chain(isUnless, gs1) \o <<"-">> \o Chain(isUnless, gs2)

ChainTemplates(isUnless) ==
  {Siblings(isUnless, gs1, gs2) :
     gs1 \in SeqsUpTo(GuardNames, MaxDepth), gs2 \in SeqsUpTo(GuardNames, 1)}

IfChains == ChainTemplates(FALSE)

UnlessChains == ChainTemplates(TRUE)

\* The guards a and b, each truthy or falsy
GuardVariables ==
  {Obj(<< <<<<"a">>, va>>, <<<<"b">>, vb>> >>) :
     va \in {Bool(TRUE), Num(0)}, vb \in {Str(<<"y">>), Null}}

ChainCalls == {Call(Str(t), v) : t \in IfChains \cup UnlessChains, v \in GuardVariables}

\* An outer block (with or without its own {{else}}) whose then-branch holds
\* an inner block that has its own {{else}}
NestedElse(u1, u2, outerElse) ==
  OpenCond(u1, <<"a">>) \o <<"P">>
  \o OpenCond(u2, <<"b">>) \o <<"X">> \o elseTag \o <<"Y">> \o closeTag(u2)
  \o <<"Q">> \o (IF outerElse THEN elseTag \o <<"Z">> ELSE <<>>) \o closeTag(u1)

NestedElseTemplates ==
  {NestedElse(u1, u2, e) : u1 \in BOOLEAN, u2 \in BOOLEAN, e \in BOOLEAN}

NestedElseCalls == {Call(Str(t), v) : t \in NestedElseTemplates, v \in GuardVariables}

InitCond ==
  \E c \in BaseCalls \cup CondCalls \cup ChainCalls \cup NestedElseCalls : Start(c)

\* processTemplate called directly on conditional templates
SpecCond == InitCond /\ [][ProcessNext]_vars

\* ------------------------------------------------------------------------
\* C1
\* ------------------------------------------------------------------------

\* The truthiness rule in the words of the claim
\* The value that the mapping gives the guard: that of its key, and nothing
\* when the key is absent
ClaimGuard(vs, X) ==
  IF \E i \in 1..Len(vs.o) : vs.o[i][1] = X
  THEN vs.o[CHOOSE i \in 1..Len(vs.o) : vs.o[i][1] = X][2]
  ELSE Undef

ClaimTruthy(v) ==
  CASE v.t \in {"null", "undef"} -> FALSE
    [] v.t = "bool" -> v.b
    [] v.t = "str" -> \E i \in 1..Len(v.s) : v.s[i] \notin {" ", "\n", "\t"}
    [] v.t = "num" -> v.n # 0
    [] v.t = "arr" -> v.a # <<>>
    [] v.t = "obj" -> v.o # <<>>

\* C1: a conditional block without nested markers resolves to its then-branch
\* T when the guard is truthy (falsy, for unless) and to its else-branch E
\* otherwise, E being empty without {{else}}; truthy is the rule of the claim,
\* for every kind of value of the guard.
C1_ConditionalResolves ==
  \A u \in BOOLEAN, X \in CondNames, T \in CondTexts, E \in CondTexts, e \in BOOLEAN :
    (/\ op = "call"
     /\ pc = "done"
     /\ html = Str(CondBlock(u, X, T, E, e))
     /\ variables.t = "obj")
    => processedHtml =
         (IF ClaimTruthy(ClaimGuard(variables, X)) # u THEN T
          ELSE IF e THEN E ELSE <<>>)

\* C1 witness: an unless block with an else branch whose guard is a string of
\* white space only has resolved to its then-branch.
C1_Witness ==
  /\ op = "call"
  /\ pc = "done"
  /\ html = Str(CondBlock(TRUE, <<"x">>, <<"T">>, <<"E", " ">>, TRUE))
  /\ variables = Obj(<< <<<<"x">>, Str(<<" ", "\n">>)>> >>)
  /\ processedHtml = <<"T">>

\* ------------------------------------------------------------------------
\* Iteration blocks: inputs
\* ------------------------------------------------------------------------

\* The longest block body, in parts
MaxParts == 2

\* The longest array
MaxItems == 2

IndexHelper == Marker(<<"@", "i", "n", "d", "e", "x">>)

NumberHelper == Marker(<<"@", "n", "u", "m", "b", "e", "r">>)

FirstHelper == Marker(<<"@", "f", "i", "r", "s", "t">>)

LastHelper == Marker(<<"@", "l", "a", "s", "t">>)

\* The parts a block body is made of: the element, the four helpers, a
\* property placeholder and plain text
BodyParts == {Dot, IndexHelper, NumberHelper, FirstHelper, LastHelper, Marker(<<"p">>), <<":">>}

BlockBodies == SeqsUpTo(BodyParts, MaxParts)

\* The elements of the arrays: strings (one of them with the characters
\* "$&", one that is itself a marker), a number, a boolean, and mappings with
\* and without the property p
Elements ==
  { Str(<<"x">>), Str(<<"$", "&">>), Str(IndexHelper), Num(7), Bool(FALSE),
    Obj(<< <<<<"p">>, Str(<<"v">>)>> >>),
    Obj(<< <<<<"q">>, Num(1)>>, <<<<"p">>, Null>> >>) }

Arrays == {Arr(a) : a \in SeqsUpTo(Elements, MaxItems)}

\* {{#i}}B{{/i}}
IterationBlock(parts) == Open(<<"i">>) \o Concat(parts) \o Close(<<"i">>)

IterationCalls ==
  {Call(Str(IterationBlock(b)), Obj(<< <<<<"i">>, a>> >>)) : b \in BlockBodies, a \in Arrays}

\* An iteration block of x, whose value is no array, or absent
OtherBlock == Open(<<"x">>) \o <<"a">> \o Close(<<"x">>)

\* An iteration block of the array i
ArrayBlock == Open(<<"i">>) \o Dot \o Close(<<"i">>)

\* Iteration blocks of arrays and of other values, a conditional block, a
\* conditional block around an iteration block, a block of another value
\* around an iteration block, and text
BlockParts ==
  { OtherBlock, ArrayBlock, <<"-">>,
    If(<<"c">>) \o <<"T">> \o closeTag(FALSE),
    If(<<"c">>) \o ArrayBlock \o closeTag(FALSE),
    Open(<<"x">>) \o ArrayBlock \o Close(<<"x">>) }

BlockTemplates == {Concat(ps) : ps \in SeqsUpTo(BlockParts, MaxParts)} \ {<<>>}

BlockVariables ==
  { Obj(<< <<<<"i">>, Arr(<<Str(<<"y">>)>>)>>, <<<<"c">>, Bool(TRUE)>> >>),
    Obj(<< <<<<"i">>, Arr(<<Str(<<"y">>), Num(2)>>)>>, <<<<"x">>, Str(<<"s">>)>>,
           <<<<"c">>, Bool(TRUE)>> >>),
    Obj(<< <<<<"x">>, Obj(<<>>)>>, <<<<"i">>, Arr(<<Num(1)>>)>>, <<<<"c">>, Bool(FALSE)>> >>) }

BlockCalls == {Call(Str(t), v) : t \in BlockTemplates, v \in BlockVariables}

\* Blocks whose expansion is an iteration block again: the body $& with one
\* element, and the body {{.}} with the block itself as the element
LoopCalls ==
  { Call(Str(Open(<<"i">>) \o <<"$", "&">> \o Close(<<"i">>)),
         Obj(<< <<<<"i">>, Arr(<<Num(1)>>)>> >>)),
    Call(Str(ArrayBlock), Obj(<< <<<<"i">>, Arr(<<Str(ArrayBlock)>>)>> >>)),
    Call(Str(ArrayBlock),
         Obj(<< <<<<"i">>, Arr(<<Str(Open(<<"j">>) \o Dot \o Close(<<"j">>))>>)>>,
                <<<<"j">>, Arr(<<Str(<<"z">>)>>)>> >>)) }

\* The values of the property p of an element
PropertyValues == {Bool(TRUE), Bool(FALSE), Str(<<"y">>), Num(0)}

\* An iteration block over o whose body is a conditional block on p
ElementConditional(isUnless, hasElse) ==
  Open(<<"o">>) \o CondBlock(isUnless, <<"p">>, <<"T">>, <<"E">>, hasElse) \o Close(<<"o">>)

\* o is an array of objects with the property p; the mapping has no p, or
\* a p of its own
ElementVariables ==
  {Obj(<< <<<<"o">>, Arr([j \in 1..Len(ps) |-> Obj(<< <<<<"p">>, ps[j]>> >>)])>> >> \o top) :
     ps \in SeqsUpTo(PropertyValues, MaxItems) \ {<<>>},
     top \in {<<>>, << <<<<"p">>, Bool(TRUE)>> >>}}

ElementCalls ==
  {Call(Str(ElementConditional(u, e)), v) :
     u \in BOOLEAN, e \in BOOLEAN, v \in ElementVariables}

\* Texts of elements: plain text, and text that holds markers
InsertedTexts ==
  { <<"y">>, elseTag, closeTag(FALSE), If(<<"x">>) \o <<"Q">> \o closeTag(FALSE),
    Marker(<<"t">>), Open(<<"j">>) \o <<"z">> \o Close(<<"j">>) }

\* An iteration block that inserts the element ({{.}}) or its property p,
\* alone or between A and B inside a conditional block on c
Inserting(byProperty, wrapped) ==
  (IF wrapped THEN If(<<"c">>) \o <<"A">> ELSE <<>>)
    \o (IF byProperty THEN Open(<<"o">>) \o Marker(<<"p">>) \o Close(<<"o">>) ELSE ArrayBlock)
    \o (IF wrapped THEN <<"B">> \o closeTag(FALSE) ELSE <<>>)

\* One element with the text, as the element itself and as its property p
InsertedVariables(text) ==
  { Obj(<< <<<<"i">>, Arr(<<Str(text)>>)>>,
           <<<<"o">>, Arr(<<Obj(<< <<<<"p">>, Str(text)>> >>)>>)>>,
           <<<<"c">>, Bool(c)>>, <<<<"t">>, Str(<<"H">>)>>,
           <<<<"j">>, Arr(<<Num(1), Num(2)>>)>> >>) : c \in BOOLEAN }

InsertedCalls ==
  {Call(Str(Inserting(byProperty, wrapped)), v) :
     byProperty \in BOOLEAN, wrapped \in BOOLEAN,
     v \in UNION {InsertedVariables(text) : text \in InsertedTexts}}

InitIteration ==
  \E c \in BaseCalls \cup IterationCalls \cup BlockCalls \cup LoopCalls \cup ElementCalls
            \cup InsertedCalls :
    Start(c)

\* processTemplate called directly on one iteration block
SpecIteration == InitIteration /\ [][ProcessNext]_vars

\* ------------------------------------------------------------------------
\* C2
\* ------------------------------------------------------------------------

\* What the claim puts in place of one part of the body for element i
\* (0-based) of an array of n elements
ClaimPart(part, element, i, n) ==
  CASE part = Dot -> IF element.t \notin {"obj", "arr", "null"} THEN String(element) ELSE part
    [] part = IndexHelper -> NumToString(i)
    [] part = NumberHelper -> NumToString(i + 1)
    [] part = FirstHelper -> BoolToString(i = 0)
    [] part = LastHelper -> BoolToString(i = n - 1)
    [] part = Marker(<<"p">>) ->
         IF element.t = "obj" /\ HasKey(element, <<"p">>)
         THEN Replacement(Lookup(element, <<"p">>)) ELSE part
    [] OTHER -> part

ClaimCopy(parts, element, i, n) ==
  Concat([j \in 1..Len(parts) |-> ClaimPart(parts[j], element, i, n)])

\* The expansion of the claim: one copy of the body per element, in order
ClaimExpansion(parts, array) ==
  Concat([j \in 1..Len(array.a) |-> ClaimCopy(parts, array.a[j], j - 1, Len(array.a))])

\* C2: an iteration block over an array of n elements is replaced by the
\* concatenation, in array order, of one copy of its body per element, with
\* {{.}} the element's string form, {{p}} the string form of the element's
\* property p, and the helpers @index, @number, @first and @last those of the
\* element's position; the empty array gives the empty text.
C2_IterationExpands ==
  \A parts \in BlockBodies :
    (/\ op = "call"
     /\ pc = "done"
     /\ html = Str(IterationBlock(parts))
     /\ variables.t = "obj"
     /\ Lookup(variables, <<"i">>).t = "arr")
    => processedHtml = ClaimExpansion(parts, Lookup(variables, <<"i">>))

\* ------------------------------------------------------------------------
\* Recursive evaluation of a well-formed template of conditional blocks: the
\* meaning the claims give to nesting.  A block is its opening tag, a
\* then-part, an optional {{else}} with an else-part, and its closing tag;
\* the parts are evaluated the same way.
\* ------------------------------------------------------------------------

\* The guard truthy, for if; falsy, for unless
ClaimSelectsThen(isUnless, v) == ClaimTruthy(v) # isUnless

\* The evaluation of the sequence of text and blocks that starts at position
\* i and ends before {{else}}, a closing tag or the end: [out, i]
RECURSIVE ClaimSequence(_, _, _)
RECURSIVE ClaimBlock(_, _, _, _)
ClaimSequence(s, i, vs) ==
  IF \/ i >= Len(s)
     \/ OccursAt(s, elseTag, i)
     \/ OccursAt(s, closeTag(FALSE), i)
     \/ OccursAt(s, closeTag(TRUE), i)
  THEN [out |-> <<>>, i |-> i]
  ELSE IF OccursAt(s, openTag(FALSE) \o <<" ">>, i) THEN ClaimBlock(s, i, vs, FALSE)
  ELSE IF OccursAt(s, openTag(TRUE) \o <<" ">>, i) THEN ClaimBlock(s, i, vs, TRUE)
  ELSE [out |-> <<s[i + 1]>> \o ClaimSequence(s, i + 1, vs).out,
        i |-> ClaimSequence(s, i + 1, vs).i]
ClaimBlock(s, i, vs, isUnless) ==
  LET nameStart == i + Len(openTag(isUnless)) + 1
      nameEnd == IndexOf(s, CloseBraces, nameStart)
      guard == Lookup(vs, Substring(s, nameStart, nameEnd))
      thenPart == ClaimSequence(s, nameEnd + 2, vs)
      hasElse == OccursAt(s, elseTag, thenPart.i)
      elsePart == IF hasElse THEN ClaimSequence(s, thenPart.i + Len(elseTag), vs)
                  ELSE [out |-> <<>>, i |-> thenPart.i]
      rest == ClaimSequence(s, elsePart.i + Len(closeTag(isUnless)), vs)
  IN  [out |-> (IF ClaimSelectsThen(isUnless, guard) THEN thenPart.out ELSE elsePart.out)
               \o rest.out,
       i |-> rest.i]

ClaimEvaluation(s, vs) == ClaimSequence(s, 0, vs).out

\* ------------------------------------------------------------------------
\* C4
\* ------------------------------------------------------------------------

\* C4: for blocks of one type nested without {{else}}, and for sibling
\* blocks, the output is the recursive evaluation: the text inside a block is
\* emitted iff the guards of all the blocks around it select their
\* then-branch.
C4_NestedSameType ==
  (/\ op = "call"
   /\ pc = "done"
   /\ html.t = "str"
   /\ html.s \in IfChains \cup UnlessChains)
  => processedHtml = ClaimEvaluation(html.s, variables)

\* C4 witness: {{#if a}}({{#if b}}(X){{/if}}){{/if}} next to a sibling block,
\* with a truthy and b falsy, has come out as "()" and the sibling's text.
C4_Witness ==
  /\ op = "call"
  /\ pc = "done"
  /\ html = Str(Siblings(FALSE, <<<<"a">>, <<"b">>>>, <<<<"a">>>>))
  /\ variables = Obj(<< <<<<"a">>, Bool(TRUE)>>, <<<<"b">>, Null>> >>)
  /\ processedHtml = <<"(", ")", "-", "(", "X", ")">>

\* ------------------------------------------------------------------------
\* C5
\* ------------------------------------------------------------------------

\* C5: a block whose then-branch holds a nested block with its own {{else}}
\* is split at its own {{else}} only; the nested block stays whole in the
\* chosen branch and is resolved by its own guard.
C5_NestedElse ==
  (/\ op = "call"
   /\ pc = "done"
   /\ html.t = "str"
   /\ html.s \in NestedElseTemplates)
  => processedHtml = ClaimEvaluation(html.s, variables)

\* ------------------------------------------------------------------------
\* Conditional markers in any order: inputs
\* ------------------------------------------------------------------------

\* The most tokens in a template
MaxTokens == 3

\* Opening tags (one of them never closed by braces), closing tags, {{else}}
\* and text
Tokens ==
  { If(<<"a">>), Unless(<<"a">>), closeTag(FALSE), closeTag(TRUE), elseTag,
    OpenBraces \o <<"#">> \o IfWord, <<"T">> }

TokenTemplates == {Concat(ts) : ts \in SeqsUpTo(Tokens, MaxTokens)} \ {<<>>}

\* Longer templates with unbalanced and crossing tags
CrossedTemplates ==
  { If(<<"a">>) \o Unless(<<"a">>) \o <<"T">> \o closeTag(FALSE) \o elseTag
      \o closeTag(TRUE) \o closeTag(FALSE),
    If(<<"a">>) \o If(<<"a">>) \o If(<<"a">>) \o elseTag \o closeTag(FALSE)
      \o elseTag \o closeTag(FALSE),
    Unless(<<"a">>) \o If(<<"a">>) \o closeTag(TRUE) \o <<"T">> \o closeTag(FALSE)
      \o closeTag(TRUE) }

TokenVariables == {Obj(<< <<<<"a">>, v>> >>) : v \in {Bool(TRUE), Bool(FALSE)}}

TokenCalls ==
  {Call(Str(t), v) : t \in TokenTemplates \cup CrossedTemplates, v \in TokenVariables}

\* The template of an opening tag that is never closed
Unterminated == If(<<"a">>) \o <<"u", "n", "t", "e", "r", "m", "i", "n", "a", "t", "e", "d">>

\* Templates with an opening tag that no closing tag of its type follows:
\* alone, after a block, around a block, before a placeholder, before and
\* inside a block of the other type
UnterminatedTemplates ==
  { Unterminated,
    Unless(<<"a">>) \o <<"u">>,
    CondBlock(FALSE, <<"b">>, <<"x">>, <<"y">>, TRUE) \o If(<<"a">>) \o <<"u">>,
    CondBlock(TRUE, <<"b">>, <<"x">>, <<>>, FALSE) \o Unless(<<"a">>) \o <<"u">>,
    If(<<"a">>) \o <<"u">> \o Marker(<<"b">>),
    If(<<"a">>) \o <<"u">> \o CondBlock(TRUE, <<"b">>, <<"x">>, <<>>, FALSE),
    Unless(<<"a">>) \o <<"u">> \o CondBlock(FALSE, <<"b">>, <<"x">>, <<>>, FALSE),
    Unless(<<"b">>) \o If(<<"a">>) \o <<"u">> \o closeTag(TRUE) }

\* The text between the braces of {{#if a}}
TagContent == <<"#">> \o IfWord \o <<" ", "a">>

\* a of every kind and absent, b truthy and falsy; and mappings with the
\* text between the braces of the opening tag as a key
UnterminatedVariables ==
  {Obj(a \o << <<<<"b">>, vb>> >>) :
     a \in {<<>>} \cup {<< <<<<"a">>, va>> >> : va \in CondValues},
     vb \in {Bool(TRUE), Bool(FALSE)}}
  \cup {Obj(<< <<TagContent, Str(<<"x">>)>> >>),
        Obj(<< <<<<"a">>, Bool(TRUE)>>, <<TagContent, Null>> >>)}

UnterminatedCalls ==
  {Call(Str(t), v) : t \in UnterminatedTemplates, v \in UnterminatedVariables}

\* An opening tag that is never closed, text, and a complete block of the
\* same type with the guard b
Followed(isUnless, hasElse) ==
  OpenCond(isUnless, <<"a">>) \o <<"X">>
    \o CondBlock(isUnless, <<"b">>, <<"Y">>, <<"Z">>, hasElse)

FollowedCalls ==
  {Call(Str(Followed(u, e)), v) : u \in BOOLEAN, e \in BOOLEAN, v \in GuardVariables}

InitTokens ==
  \E c \in BaseCalls \cup TokenCalls \cup UnterminatedCalls \cup FollowedCalls : Start(c)

\* processTemplate called directly on templates of conditional markers
SpecTokens == InitTokens /\ [][ProcessNext]_vars

\* ------------------------------------------------------------------------
\* C7
\* ------------------------------------------------------------------------

\* after is before with one block that starts at the first opening tag
\* replaced by a stretch of text from inside that block
ClaimReplacesOneBlock(before, after, isUnless) ==
  LET open == IndexOf(before, openTag(isUnless), 0)
      inside == open + Len(openTag(isUnless)) + 2
  IN  /\ open # 0 - 1
      /\ \E close \in inside .. Len(before) :
           LET tail == Len(before) - close - Len(closeTag(isUnless))
               branch == Len(after) - open - tail
           IN  /\ OccursAt(before, closeTag(isUnless), close)
               /\ branch >= 0
               /\ Substring(after, 0, open) = Substring(before, 0, open)
               /\ SubstringFrom(after, open + branch)
                    = SubstringFrom(before, close + Len(closeTag(isUnless)))
               /\ \E at \in inside .. close - branch :
                    Substring(before, at, at + branch) = Substring(after, open, open + branch)

\* C7: an iteration of the loop of processIfBlocks that reports a change has
\* replaced exactly one block by a stretch of its own content, so the text
\* is strictly shorter; the loop therefore ends for every input, malformed
\* ones included.
C7_IfLoopShrinks ==
  \A isUnless \in BOOLEAN :
    pc = (IF isUnless THEN "unless" ELSE "if")
    => (IfBlocksPass(processedHtml, variables, isUnless).changed
        => /\ Len(IfBlocksPass(processedHtml, variables, isUnless).result)
                < Len(processedHtml)
           /\ ClaimReplacesOneBlock(
                processedHtml,
                IfBlocksPass(processedHtml, variables, isUnless).result, isUnless))

\* C7 witness: the template with crossing if and unless tags has had its
\* blocks resolved, each time to a shorter text, and the call has returned.
C7_Witness ==
  /\ op = "call"
  /\ pc = "done"
  /\ html = Str(If(<<"a">>) \o Unless(<<"a">>) \o <<"T">> \o closeTag(FALSE) \o elseTag
                \o closeTag(TRUE) \o closeTag(FALSE))
  /\ variables = Obj(<< <<<<"a">>, Bool(TRUE)>> >>)
  /\ Len(processedHtml) < Len(html.s)

\* ------------------------------------------------------------------------
\* Plain substitution: inputs
\* ------------------------------------------------------------------------

SubstNames == {<<"a">>, <<"b">>, <<".">>}

\* Placeholders of the names, and text
SubstParts == {Marker(n) : n \in SubstNames} \cup {<<"-">>}

SubstTemplates == {Concat(ps) : ps \in SeqsUpTo(SubstParts, MaxParts)} \ {<<>>}

\* Values without markers: text, text with a dollar sign, a number, a
\* boolean, null
PlainValues ==
  { Str(<<"x">>), Str(<<"$", "&">>), Str(<<"$", "$">>), Str(<<"$", "1">>),
    Num(3), Bool(FALSE), Null }

\* Values that are the text of a placeholder
MarkerValues == {Str(Marker(<<"a">>)), Str(Marker(<<"b">>))}

\* Mappings of one name, and of two names in either order
SubstVariables(values) ==
  {Obj(<< <<n, v>> >>) : n \in SubstNames, v \in values}
  \cup {Obj(<< <<ns[1], v1>>, <<ns[2], v2>> >>) :
          ns \in {p \in SubstNames \X SubstNames : p[1] # p[2]},
          v1 \in values, v2 \in values}

SubstCalls ==
  {Call(Str(t), v) : t \in SubstTemplates, v \in SubstVariables(PlainValues)}

RescanCalls ==
  {Call(Str(t), v) : t \in SubstTemplates,
                     v \in SubstVariables(MarkerValues \cup {Str(<<"x">>)})}

InitSubst == \E c \in BaseCalls \cup SubstCalls \cup RescanCalls : Start(c)

\* processTemplate called directly on templates of placeholders
SpecSubst == InitSubst /\ [][ProcessNext]_vars

\* ------------------------------------------------------------------------
\* C3
\* ------------------------------------------------------------------------

\* What the claim has inserted for a value: its string form, nothing for null
ClaimInserted(v) == IF v.t \in {"null", "undef"} THEN <<>> ELSE String(v)

\* The template with the placeholder at position i, if there is one of a key
\* of the mapping, replaced by the string form of the key's value, and so on
\* to the end of the template; what is inserted is not looked at again.
RECURSIVE ClaimSubstitution(_, _, _)
ClaimSubstitution(s, i, vs) ==
  IF i >= Len(s) THEN <<>>
  ELSE IF \E n \in SubstNames : HasKey(vs, n) /\ OccursAt(s, Marker(n), i)
  THEN LET n == CHOOSE n \in SubstNames : HasKey(vs, n) /\ OccursAt(s, Marker(n), i)
       IN  ClaimInserted(Lookup(vs, n)) \o ClaimSubstitution(s, i + Len(Marker(n)), vs)
  ELSE <<s[i + 1]>> \o ClaimSubstitution(s, i + 1, vs)

\* C3: for a template of placeholders and text and values without markers,
\* every placeholder of a key is replaced by exactly the string form of the
\* key's value (nothing for null), values with a dollar sign included, and
\* the key "." matches only the placeholder {{.}}.
C3_SubstitutesVerbatim ==
  (/\ op = "call"
   /\ pc = "done"
   /\ html.t = "str"
   /\ html.s \in SubstTemplates
   /\ variables \in SubstVariables(PlainValues))
  => processedHtml = ClaimSubstitution(html.s, 0, variables)

\* ------------------------------------------------------------------------
\* C8
\* ------------------------------------------------------------------------

\* C8: when the value of key A contains the placeholder of another key B and
\* the template contains the placeholder of A, the output still contains the
\* placeholder of B, whatever the order of the keys.
C8_NoRescan ==
  \A A \in SubstNames, B \in SubstNames :
    (/\ A # B
     /\ op = "call"
     /\ pc = "done"
     /\ html.t = "str"
     /\ html.s \in SubstTemplates
     /\ variables.t = "obj"
     /\ HasKey(variables, A)
     /\ HasKey(variables, B)
     /\ Lookup(variables, A) = Str(Marker(B))
     /\ Lookup(variables, B) = Str(<<"x">>)
     /\ IndexOf(html.s, Marker(A), 0) # 0 - 1)
    => IndexOf(processedHtml, Marker(B), 0) # 0 - 1

\* ------------------------------------------------------------------------
\* C6
\* ------------------------------------------------------------------------

\* C6: the loop of processArrayBlocks ends for every input; so an iteration
\* that expands a block, and sets changed for another iteration, never
\* leaves the text as it found it.
C6_ArrayLoopProgress ==
  (pc = "arrays" /\ ArrayExpands) => ArrayExpansion # processedHtml

\* ------------------------------------------------------------------------
\* C10
\* ------------------------------------------------------------------------

\* An iteration block whose name is an array of the mapping starts at
\* position i of s
ClaimUnexpandedAt(s, i, vs) ==
  /\ BlockMatchesAt(s, i)
  /\ BlockMatch(s, i).name \notin {IfWord, UnlessWord, <<"e", "l", "s", "e">>}
  /\ Lookup(vs, BlockMatch(s, i).name).t = "arr"

\* C10: after processTemplate on a template of iteration blocks of arrays
\* and of other values, conditional blocks and text, no iteration block of
\* an array is left in the output.
C10_EveryArrayBlockExpanded ==
  (/\ op = "call"
   /\ pc = "done"
   /\ html.t = "str"
   /\ html.s \in BlockTemplates)
  => \A i \in 0 .. Len(processedHtml) - 1 : ~ClaimUnexpandedAt(processedHtml, i, variables)

\* ------------------------------------------------------------------------
\* C9
\* ------------------------------------------------------------------------

ClaimMarkupCharacters == {"<", ">", "\"", Apostrophe}

\* C9: at the template endpoints with sanitization enabled, the text that
\* processTemplate hands on for a template without markup characters has
\* none of the characters <, >, " and ': no such character comes from a
\* variable value.
C9_NoMarkupFromValues ==
  (/\ op \in {"render", "preview"}
   /\ request.sanitize
   /\ pc = "done"
   /\ request.template.t = "str"
   /\ request.template.s \in MarkupTemplates)
  => \A j \in 1 .. Len(processedHtml) : processedHtml[j] \notin ClaimMarkupCharacters

\* ------------------------------------------------------------------------
\* C11
\* ------------------------------------------------------------------------

\* The branch of the conditional block on p that the element selects
ClaimElementBranch(isUnless, hasElse, element) ==
  IF ClaimSelectsThen(isUnless, Lookup(element, <<"p">>)) THEN <<"T">>
  ELSE IF hasElse THEN <<"E">> ELSE <<>>

\* C11: for an iteration block over object elements whose body is a
\* conditional block on the property p, the output is, element by element,
\* the branch selected by that element's own value of p.
C11_ElementConditionals ==
  \A isUnless \in BOOLEAN, hasElse \in BOOLEAN :
    (/\ op = "call"
     /\ pc = "done"
     /\ html = Str(ElementConditional(isUnless, hasElse))
     /\ variables \in ElementVariables)
    => processedHtml =
         Concat([j \in 1..Len(Lookup(variables, <<"o">>).a) |->
                   ClaimElementBranch(isUnless, hasElse, Lookup(variables, <<"o">>).a[j])])

\* ------------------------------------------------------------------------
\* processTemplate applied twice: inputs
\* ------------------------------------------------------------------------

\* Placeholders, conditional blocks and iteration blocks; a conditional
\* block around a block of x before an iteration block; an opening if tag
\* with an empty unless block inside its braces
TwiceTemplates ==
  { Marker(<<"a">>),
    <<"-">> \o Marker(<<"a">>),
    <<"-">> \o CondBlock(FALSE, <<"c">>, <<"T">>, <<"E">>, TRUE),
    CondBlock(TRUE, <<"c">>, <<"T">>, <<>>, FALSE) \o Marker(<<"a">>),
    <<"-">> \o ArrayBlock,
    ArrayBlock \o If(<<"c">>) \o Marker(<<"a">>) \o closeTag(FALSE) \o <<".">>,
    If(<<"c">>) \o OtherBlock \o closeTag(FALSE) \o ArrayBlock,
    OpenBraces \o <<"#">> \o Unless(<<"c">>) \o closeTag(TRUE) \o IfWord \o <<" ">>
      \o <<"c">> \o CloseBraces \o <<"X">> \o closeTag(FALSE) }

\* Values without markers
TwiceVariables ==
  {Obj(<< <<<<"a">>, va>>, <<<<"c">>, vc>>, <<<<"i">>, Arr(<<Str(<<"y">>), Num(2)>>)>> >>) :
     va \in {Str(<<"x">>), Str(<<>>), Num(0)}, vc \in {Bool(TRUE), Bool(FALSE)}}

TwiceCalls == {Twice(Str(t), v) : t \in TwiceTemplates, v \in TwiceVariables}

InitTwice == \E c \in BaseCalls \cup TwiceCalls : Start(c)

\* processTemplate called on templates and called again on its result
SpecTwice == InitTwice /\ [][ProcessTwiceNext]_vars

\* ------------------------------------------------------------------------
\* C12
\* ------------------------------------------------------------------------

\* C12: with values that contain no markers, the second call of
\* processTemplate, on the result of the first, returns that result.
C12_Idempotent ==
  (op = "twice" /\ previous # <<>> /\ pc \in {"done", "threw"})
  => (pc = "done" /\ processedHtml = previous[1])

\* ------------------------------------------------------------------------
\* C13
\* ------------------------------------------------------------------------

\* C13: when every variable extracted from the template is supplied
\* (the validation of the mapping against the extracted names is valid) and
\* the values contain no markers, the output of processTemplate contains no
\* "{{".
C13_NoMarkerLeft ==
  (/\ op = "call"
   /\ pc = "done"
   /\ html.t = "str"
   /\ html.s \in BlockTemplates
   /\ variables \in BlockVariables
   /\ validateTemplateVariables(variables, extractTemplateVariables(html)).isValid)
  => IndexOf(processedHtml, OpenBraces, 0) = 0 - 1

\* ------------------------------------------------------------------------
\* C14
\* ------------------------------------------------------------------------

\* An opening tag of the type starts at position j of s and no closing tag of
\* the type follows it
ClaimUnterminatedAt(s, j, isUnless) ==
  /\ OccursAt(s, openTag(isUnless), j)
  /\ IndexOf(s, closeTag(isUnless), j) = 0 - 1

\* The last n characters of s
ClaimTail(s, n) == SubstringFrom(s, Len(s) - n)

PlainParts ==
  { [text |-> Marker(<<"m">>), names |-> {<<"m">>}],
    [text |-> Marker(<<" ", "n", " ">>), names |-> {<<"n">>}],
    [text |-> elseTag, names |-> {}],
    [text |-> IndexHelper, names |-> {}],
    [text |-> If(<<"c">>) \o Marker(<<"m">>) \o closeTag(FALSE), names |-> {<<"c">>, <<"m">>}],
    [text |-> CondBlock(TRUE, <<"d">>, <<"T">>, <<"E">>, TRUE), names |-> {<<"d">>}],
    [text |-> Open(<<"i">>) \o Marker(<<"p">>) \o If(<<"g">>) \o <<"T">> \o closeTag(FALSE)
                \o IndexHelper \o Close(<<"i">>),
     names |-> {<<"i">>}],
    [text |-> Open(<<"j">>) \o Marker(<<"m">>) \o Dot \o Close(<<"j">>), names |-> {<<"j">>}],
    [text |-> If(<<"c">>) \o Open(<<"i">>) \o Dot \o Close(<<"i">>) \o closeTag(FALSE),
     names |-> {<<"c">>, <<"i">>}],
    [text |-> <<"-">>, names |-> {}] }

\* Iteration blocks whose name has a dollar sign
DollarParts ==
  { [text |-> Open(<<"$", "$">>) \o Marker(<<"q">>) \o Close(<<"$", "$">>),
     names |-> {<<"$", "$">>}],
    [text |-> Open(<<"$", "&">>) \o Marker(<<"q">>) \o Close(<<"$", "&">>),
     names |-> {<<"$", "&">>}] }

ExtractParts == PlainParts \cup DollarParts

PartsText(ps) == Concat([j \in 1..Len(ps) |-> ps[j].text])

ExtractCalls ==
  {Extract(Str(PartsText(ps))) : ps \in SeqsUpTo(ExtractParts, MaxParts) \ {<<>>}}

InitExtract == \E c \in ExtractCalls : Start(c)

\* extractTemplateVariables called directly on templates
SpecExtract == InitExtract /\ [][ExtractCall]_vars

\* ------------------------------------------------------------------------
\* C15
\* ------------------------------------------------------------------------

\* The names the claim puts in the result for a template of parts
ClaimNames(ps) == UNION {ps[j].names : j \in 1..Len(ps)}

\* C15: the list returned by extractTemplateVariables has no duplicates and
\* holds exactly the names of the iteration blocks, of the plain placeholders
\* outside iteration blocks (not else, not starting with #, / or @) and of
\* the guards of the conditional blocks outside iteration blocks; a name
\* that occurs only inside the body of an iteration block is not in it.
C15_ExtractedNames ==
  \A ps \in SeqsUpTo(ExtractParts, MaxParts) :
    (op = "extract" /\ pc = "done" /\ request.template = Str(PartsText(ps)))
    => /\ {returned[j] : j \in 1..Len(returned)} = ClaimNames(ps)
       /\ \A i, j \in 1..Len(returned) : returned[i] = returned[j] => i = j

\* ------------------------------------------------------------------------
\* validateTemplateVariables: inputs
\* ------------------------------------------------------------------------

\* The longest list of required names
MaxRequired == 2

\* Names: two plain ones and one that objects inherit from Object.prototype
RequiredNames == {<<"a">>, <<"b">>, <<"c", "o", "n", "s", "t", "r", "u", "c", "t", "o", "r">>}

RequiredLists == SeqsUpTo(RequiredNames, MaxRequired)

\* Values on both sides of the rule for a missing name
SuppliedValues ==
  { Undef, Null, Arr(<<>>), Str(<<>>), Num(0), Bool(FALSE), Str(<<"x">>), Arr(<<Null>>),
    Obj(<<>>) }

\* Mappings with and without a, with and without b
SuppliedVariables ==
  {Obj(a \o b) :
     a \in {<<>>} \cup {<< <<<<"a">>, v>> >> : v \in SuppliedValues},
     b \in {<<>>, << <<<<"b">>, Str(<<>>)>> >>, << <<<<"b">>, Arr(<<>>)>> >>}}

ValidateCalls == {Validate(v, r) : v \in SuppliedVariables, r \in RequiredLists}

\* JSON texts of mappings, each with the mapping it encodes
JsonMappings ==
  { [text |-> <<"{", "}">>, value |-> Obj(<<>>)],
    [text |-> <<"{", "\"", "a", "\"", ":", "1", "}">>,
     value |-> Obj(<< <<<<"a">>, Num(1)>> >>)],
    [text |-> <<"{", "\"", "a", "\"", ":", "n", "u", "l", "l", ",", " ", "\"", "b", "\"", ":", "\"", "x", "\"", "}">>,
     value |-> Obj(<< <<<<"a">>, Null>>, <<<<"b">>, Str(<<"x">>)>> >>)],
    [text |-> <<"{", "\"", "b", "\"", ":", "[", "]", ",", "\"", "a", "\"", ":", "\"", "\"", "}">>,
     value |-> Obj(<< <<<<"b">>, Arr(<<>>)>>, <<<<"a">>, Str(<<>>)>> >>)] }

\* Strings that are not valid JSON
InvalidJson ==
  { <<"{">>, <<"x">>, <<"{", "a", ":", "1", "}">>,
    <<"{", "\"", "a", "\"", ":", "1", ",", "}">>,
    <<"{", "\"", "a", "\"", ":", "1", "}", "}">> }

JsonCalls ==
  {Validate(Str(t), r) : t \in {j.text : j \in JsonMappings} \cup InvalidJson,
                         r \in RequiredLists}

\* Valid JSON texts that encode no mapping: null, a number, a quoted string
NonMappingJson ==
  { <<"n", "u", "l", "l">>, <<"5">>, <<"\"", "x", "\"">> }

NonMappingCalls == {Validate(Str(t), r) : t \in NonMappingJson, r \in RequiredLists}

InitValidate == \E c \in ValidateCalls \cup JsonCalls \cup NonMappingCalls : Start(c)

\* validateTemplateVariables called directly
SpecValidate == InitValidate /\ [][ValidateCall]_vars

\* ------------------------------------------------------------------------
\* C16
\* ------------------------------------------------------------------------

\* The mapping has the key itself
ClaimOwnKey(vs, name) == \E i \in 1..Len(vs.o) : vs.o[i][1] = name

\* The value of the key in the mapping
ClaimValue(vs, name) == vs.o[CHOOSE i \in 1..Len(vs.o) : vs.o[i][1] = name][2]

\* The rule of the claim: the key is absent, or its value is null or
\* undefined, or its value is an array of length zero
ClaimMissing(vs, name) ==
  \/ ~ClaimOwnKey(vs, name)
  \/ ClaimValue(vs, name).t \in {"null", "undef"}
  \/ ClaimValue(vs, name).t = "arr" /\ Len(ClaimValue(vs, name).a) = 0

\* The elements of a list
ClaimElements(list) == {list[j] : j \in 1..Len(list)}

\* C16: validateTemplateVariables reports a required name as missing if and
\* only if the key is absent from the mapping, or its value is null or
\* undefined, or its value is an array of length zero.
C16_MissingRule ==
  (op = "validate" /\ pc = "done" /\ request.variables.t = "obj")
  => \A name \in ClaimElements(request.required) :
       (name \in ClaimElements(returned.missing)) <=> ClaimMissing(request.variables, name)

\* ------------------------------------------------------------------------
\* C17
\* ------------------------------------------------------------------------

\* The first list is the second with some elements left out
RECURSIVE ClaimSubsequence(_, _)
ClaimSubsequence(part, whole) ==
  IF part = <<>> THEN TRUE
  ELSE IF whole = <<>> THEN FALSE
  ELSE IF Head(part) = Head(whole) THEN ClaimSubsequence(Tail(part), Tail(whole))
  ELSE ClaimSubsequence(part, Tail(whole))

\* The keys of a mapping, in order
ClaimKeyList(vs) == [i \in 1..Len(vs.o) |-> vs.o[i][1]]

\* The four fields of a validation result agree with the arguments
ClaimResultShape ==
  /\ returned.isValid <=> (returned.missing = <<>>)
  /\ ClaimSubsequence(returned.missing, request.required)
  /\ returned.required = request.required
  /\ returned.provided = ClaimKeyList(request.variables)

\* C17: every validation result has isValid true iff missing is empty,
\* missing a subsequence of the required list, required the input list
\* unchanged and provided the key list of the supplied mapping; with every
\* required name supplied the result is valid, and with a required name
\* omitted from the mapping it is invalid.
C17_ValidationResult ==
  (op = "validate" /\ pc = "done" /\ request.variables.t = "obj")
  => /\ ClaimResultShape
     /\ (\A name \in ClaimElements(request.required) : ~ClaimMissing(request.variables, name))
          => returned.isValid
     /\ (\E name \in ClaimElements(request.required) : ~ClaimOwnKey(request.variables, name))
          => ~returned.isValid

\* ------------------------------------------------------------------------
\* C18
\* ------------------------------------------------------------------------

\* The mapping that a JSON text of the family encodes
ClaimDecoded(text) == (CHOOSE j \in JsonMappings : j.text = text).value

\* C18: with a string that is not valid JSON as its mapping argument
\* validateTemplateVariables does not throw, reports every required name as
\* missing and an empty provided list; with the JSON text of a mapping it
\* returns what it returns for the decoded mapping.
C18_JsonArgument ==
  (/\ op = "validate"
   /\ pc # "request"
   /\ request.variables.t = "str"
   /\ request.variables.s \in {j.text : j \in JsonMappings} \cup InvalidJson)
  => /\ ~returned.threw
     /\ request.variables.s \in InvalidJson
          => /\ returned.missing = request.required
             /\ returned.provided = <<>>
     /\ request.variables.s \notin InvalidJson
          => returned = validateTemplateVariables(ClaimDecoded(request.variables.s),
                                                  request.required)

\* ------------------------------------------------------------------------
\* sanitizeTemplateVariables: inputs
\* ------------------------------------------------------------------------

\* The longest string built from the character set
MaxText == 2

\* The five characters that are escaped and one that is not
SanitizeChars == {"&", "<", ">", "\"", Apostrophe, "a"}

\* Strings: all short ones, the example of the specification and strings
\* that already hold entities
SanitizeStrings ==
  SeqsUpTo(SanitizeChars, MaxText)
    \cup { <<"<", "s", "c", "r", "i", "p", "t", ">">>,
           <<"&", "a", "m", "p", ";">>,
           <<"&", "l", "t", ";", "&", "#", "3", "9", ";">>,
           <<"a", "&", "q", "u", "o", "t", ";", "\"", "<">> }

\* Mappings that hold the string at the top level, in an array, in a nested
\* object, in an object of an array, in an array of an array, three objects
\* deep, and next to values that are not strings
Nestings(text) ==
  { Obj(<< <<<<"x">>, Str(text)>> >>),
    Obj(<< <<<<"x">>, Arr(<<Str(text)>>)>> >>),
    Obj(<< <<<<"x">>, Obj(<< <<<<"y">>, Str(text)>> >>)>> >>),
    Obj(<< <<<<"x">>, Arr(<<Obj(<< <<<<"y">>, Str(text)>> >>)>>)>> >>),
    Obj(<< <<<<"x">>, Arr(<<Arr(<<Str(text)>>)>>)>> >>),
    Obj(<< <<<<"x">>, Obj(<< <<<<"y">>, Obj(<< <<<<"z">>, Str(text)>> >>)>> >>)>> >>),
    Obj(<< <<<<"n">>, Num(1)>>, <<<<"x">>, Str(text)>>,
           <<<<"y">>, Obj(<< <<<<"z">>, Arr(<<Null, Str(text), Bool(TRUE)>>)>> >>)>> >>) }

SanitizeCalls ==
  {Sanitize(v, skip) : v \in UNION {Nestings(text) : text \in SanitizeStrings},
                       skip \in BOOLEAN}

InitSanitize == \E c \in SanitizeCalls : Start(c)

\* sanitizeTemplateVariables called directly
SpecSanitize == InitSanitize /\ [][SanitizeCall]_vars

\* ------------------------------------------------------------------------
\* C19
\* ------------------------------------------------------------------------

\* What one character of a value becomes
ClaimEntity(char, skipQuoteEscaping) ==
  CASE char = "&" -> <<"&", "a", "m", "p", ";">>
    [] char = "<" -> <<"&", "l", "t", ";">>
    [] char = ">" -> <<"&", "g", "t", ";">>
    [] char = "\"" /\ ~skipQuoteEscaping -> <<"&", "q", "u", "o", "t", ";">>
    [] char = Apostrophe /\ ~skipQuoteEscaping -> <<"&", "#", "3", "9", ";">>
    [] OTHER -> <<char>>

\* The string with each of its characters escaped once
ClaimEscaped(text, skipQuoteEscaping) ==
  Concat([i \in 1..Len(text) |-> ClaimEntity(text[i], skipQuoteEscaping)])

\* The strings of a value at every depth, in the order of its properties
\* and elements
RECURSIVE ClaimStrings(_)
ClaimStrings(value) ==
  CASE value.t = "str" -> <<value.s>>
    [] value.t = "arr" -> Concat([i \in 1..Len(value.a) |-> ClaimStrings(value.a[i])])
    [] value.t = "obj" -> Concat([i \in 1..Len(value.o) |-> ClaimStrings(value.o[i][2])])
    [] OTHER -> <<>>

\* The nesting depth of the deepest string of a value
RECURSIVE ClaimDepth(_)
ClaimDepth(value) ==
  CASE value.t = "arr" /\ value.a # <<>> ->
         1 + ClaimDepth(value.a[CHOOSE i \in 1..Len(value.a) :
                  \A j \in 1..Len(value.a) : ClaimDepth(value.a[j]) <= ClaimDepth(value.a[i])])
    [] value.t = "obj" /\ value.o # <<>> ->
         1 + ClaimDepth(value.o[CHOOSE i \in 1..Len(value.o) :
                  \A j \in 1..Len(value.o) : ClaimDepth(value.o[j][2]) <= ClaimDepth(value.o[i][2])][2])
    [] OTHER -> 0

StageParts ==
  << Open(<<"i">>) \o Dot \o Close(<<"i">>),
     If(<<"s">>) \o <<"A">> \o closeTag(FALSE),
     Unless(<<"s">>) \o <<"B">> \o closeTag(TRUE),
     Marker(<<"t">>) >>

\* The four parts in every order, and parts of one stage inside those of
\* another
StageTemplates ==
  { Concat([j \in 1..Len(StageParts) |-> StageParts[order[j]]]) :
      order \in {f \in [1..Len(StageParts) -> 1..Len(StageParts)] :
                   \A m, n \in 1..Len(StageParts) : m # n => f[m] # f[n]} }
    \cup { Open(<<"i">>) \o If(<<"s">>) \o Dot \o closeTag(FALSE) \o Marker(<<"t">>)
             \o Close(<<"i">>) \o Unless(<<"s">>) \o <<"B">> \o closeTag(TRUE),
           If(<<"s">>) \o Unless(<<"u">>) \o Marker(<<"t">>) \o closeTag(TRUE) \o elseTag
             \o Open(<<"i">>) \o Dot \o Close(<<"i">>) \o closeTag(FALSE),
           Unless(<<"s">>) \o If(<<"u">>) \o <<"A">> \o closeTag(FALSE) \o Marker(<<"t">>)
             \o closeTag(TRUE) \o Open(<<"i">>) \o Marker(<<"t">>) \o Close(<<"i">>) }

\* Mappings whose values are plain, and mappings whose values hold the
\* markers of an earlier stage
StageVariables ==
  { Obj(<< <<<<"i">>, i>>, <<<<"s">>, Bool(s)>>, <<<<"t">>, t>> >>) :
      i \in { Arr(<<Str(<<"x">>), Str(<<"y">>)>>), Arr(<<>>),
              Arr(<<Str(Unless(<<"s">>) \o <<"C">> \o closeTag(TRUE))>>) },
      s \in BOOLEAN,
      t \in { Str(<<"H">>), Str(If(<<"s">>) \o <<"Z">> \o closeTag(FALSE)) } }

StageCalls == {Call(Str(t), v) : t \in StageTemplates, v \in StageVariables}

InitStages == \E c \in BaseCalls \cup StageCalls : Start(c)

\* processTemplate called directly on templates with a part for each stage
SpecStages == InitStages /\ [][ProcessNext]_vars

\* ------------------------------------------------------------------------
\* C20
\* ------------------------------------------------------------------------

\* The stage of a position: array blocks 1, if blocks 2, unless blocks 3,
\* placeholders 4; 0 before and 5 after them
ClaimStage(position) ==
  CASE position = "start" -> 0
    [] position \in {"arrays", "arraysReturn"} -> 1
    [] position = "if" -> 2
    [] position = "unless" -> 3
    [] position = "subst" -> 4
    [] OTHER -> 5

\* C20: within one call of processTemplate every step stays in its stage or
\* goes on to the next one, in the order array blocks, if blocks, unless
\* blocks, placeholders (a call that throws or returns at its argument
\* checks aside); the array stage is left with no call of processArrayBlocks
\* suspended, the if and the unless stage are left when a further pass
\* changes nothing, and the placeholder stage when every entry of the
\* mapping has been substituted.
C20_StageOrder ==
  [][ /\ \/ ClaimStage(pc') = ClaimStage(pc)
         \/ ClaimStage(pc') = ClaimStage(pc) + 1
         \/ pc' = "threw"
         \/ pc = "start" /\ pc' = "done"
      /\ (ClaimStage(pc) = 1 /\ ClaimStage(pc') = 2) => stack = <<>>
      /\ (ClaimStage(pc) = 2 /\ ClaimStage(pc') = 3)
           => IfBlocksPass(processedHtml, variables, FALSE).result = processedHtml
      /\ (ClaimStage(pc) = 3 /\ ClaimStage(pc') = 4)
           => IfBlocksPass(processedHtml, variables, TRUE).result = processedHtml
      /\ (ClaimStage(pc) = 4 /\ ClaimStage(pc') = 5) => k > Len(Entries(variables))
      /\ ClaimStage(pc) >= 2 => stack' = <<>>
      /\ ClaimStage(pc) # 4 => k' = 1
    ]_vars

\* A call whose template has an array block, an if block, an unless block
\* and a placeholder has gone through the four stages and returned with
\* each of them resolved
C20_Witness ==
  /\ op = "call"
  /\ pc = "done"
  /\ html.s = Concat([j \in 1..Len(StageParts) |-> StageParts[Len(StageParts) + 1 - j]])
  /\ variables = Obj(<< <<<<"i">>, Arr(<<Str(<<"x">>), Str(<<"y">>)>>)>>,
                        <<<<"s">>, Bool(FALSE)>>, <<<<"t">>, Str(<<"H">>)>> >>)
  /\ processedHtml = <<"H", "B", "x", "y">>

\* ------------------------------------------------------------------------
\* C21
\* ------------------------------------------------------------------------

\* The text holds the needle
ClaimHolds(text, needle) ==
  \E i \in 1..(Len(text) - Len(needle) + 1) : SubSeq(text, i, i + Len(needle) - 1) = needle

\* What the steps of a render request have left behind agrees with the
\* order extract, validate, sanitize, processTemplate, render, store
ClaimStepsInOrder(validation) ==
  /\ pc \notin {"request", "responded"}
       => /\ validation.isValid
          /\ html = request.template
          /\ variables = (IF request.sanitize
                          THEN sanitizeTemplateVariables(RequestVariables, TRUE)
                          ELSE RequestVariables)
  /\ pc \in {"request", "start", "arrays", "arraysReturn", "if", "unless", "subst", "done",
             "threw"}
       => rendered = <<>> /\ browser = NoBrowser
  /\ rendered # <<>>
       => /\ validation.isValid
          /\ rendered = <<processedHtml>>
          /\ browser # NoBrowser
  /\ pc # "responded" => stored = 0 /\ response = NoResponse
  /\ stored > 0 => rendered # <<>> /\ stored = 1 /\ request.returnUrl

\* A request whose validation names a missing variable has ended with a 400
\* that names every one of them, with nothing rendered and nothing stored
ClaimRejected(validation) ==
  /\ pc = "responded"
  /\ response.status = 400
  /\ response.kind = "error"
  /\ \A j \in 1..Len(validation.missing) :
       ClaimHolds(response.message.names, validation.missing[j])
  /\ rendered = <<>>
  /\ browser = NoBrowser
  /\ stored = 0

\* C21: in handleTemplateRender the steps occur in the order extract,
\* validate, sanitize (when enabled), processTemplate, render, store; when
\* the validation reports a missing name the request ends with a 400 error
\* that names the missing variables, and neither the rendering backend nor
\* the object store is invoked.
C21_RenderOrder ==
  op = "render"
  => /\ ClaimStepsInOrder(validateTemplateVariables(RequestVariables,
                            extractTemplateVariables(request.template)))
     /\ (/\ pc # "request"
         /\ ~Falsy(request.template)
         /\ ~validateTemplateVariables(RequestVariables,
               extractTemplateVariables(request.template)).threw
         /\ validateTemplateVariables(RequestVariables,
               extractTemplateVariables(request.template)).missing # <<>>)
        => ClaimRejected(validateTemplateVariables(RequestVariables,
                           extractTemplateVariables(request.template)))

\* A render request that lacks the variable m of its template has ended
\* with the 400 that names m, and nothing was rendered or stored
C21_Witness ==
  /\ op = "render"
  /\ pc = "responded"
  /\ request.variables.t = "obj"
  /\ validateTemplateVariables(RequestVariables,
       extractTemplateVariables(request.template)).missing = << <<"m">> >>
  /\ response = ErrorResponse(Message("Missing required variables: ", <<"m">>))
  /\ rendered = <<>>
  /\ stored = 0

\* ------------------------------------------------------------------------
\* C30
\* ------------------------------------------------------------------------

\* C30: when a step of the rendering backend raises an error during a
\* render request, nothing is stored, the request does not end in a success
\* response with a URL or image bytes, and no browser or page opened for
\* the request stays open.
C30_BackendFailure ==
  (op = "render" /\ browser.outcome \in BackendFailures)
  => /\ stored = 0
     /\ pc = "responded" => response.status # 200
     /\ browser.browsers = 0
     /\ browser.pages = 0

\* ------------------------------------------------------------------------
\* Arguments of processTemplate: inputs
\* ------------------------------------------------------------------------

\* Template arguments: missing, empty, not a string, and strings
ArgumentTemplates ==
  { Undef, Null, Str(<<>>), Num(0), Num(5), Bool(TRUE), Bool(FALSE), Arr(<<>>),
    Arr(<<Str(<<"x">>)>>), Obj(<<>>), Obj(<< <<<<"t">>, Str(<<"x">>)>> >>),
    Str(<<" ">>), Str(<<"x">>), Str(Marker(<<"t">>)), Str(Marker(<<"0">>)),
    Str(If(<<"t">>) \o <<"A">> \o closeTag(FALSE)),
    Str(Unless(<<"t">>) \o <<"B">> \o elseTag \o <<"C">> \o closeTag(TRUE)),
    Str(Open(<<"t">>) \o Dot \o Close(<<"t">>)),
    Str(Open(<<"l", "e", "n", "g", "t", "h">>) \o Dot \o Close(<<"l", "e", "n", "g", "t", "h">>)) }

\* Variables arguments: omitted, values that are no objects, and objects
ArgumentVariables ==
  { Undef, Null, Str(<<>>), Str(<<"x">>), Str(Marker(<<"t">>)), Num(0), Num(3), Bool(TRUE),
    Bool(FALSE), Obj(<<>>), Obj(<< <<<<"t">>, Str(<<"x">>)>> >>),
    Obj(<< <<<<"t">>, Arr(<<Num(1)>>)>> >>), Arr(<<>>), Arr(<<Str(<<"x">>)>>) }

ArgumentCalls == {Call(t, v) : t \in ArgumentTemplates, v \in ArgumentVariables}

InitArguments == \E c \in BaseCalls \cup ArgumentCalls : Start(c)

\* processTemplate called directly with arguments of every type
SpecArguments == InitArguments /\ [][ProcessNext]_vars

\* ------------------------------------------------------------------------
\* C22
\* ------------------------------------------------------------------------

\* The template argument is missing, empty or not a string
ClaimInvalidTemplate(template) == template.t # "str" \/ template.s = <<>>

\* C22: processTemplate throws the invalid-template error if and only if
\* the template argument is missing, empty or not a string, whatever the
\* variables argument; with a non-empty string template and a variables
\* argument that is null, a string, a number or a boolean it returns the
\* template unchanged and throws nothing.
C22_ArgumentChecks ==
  (op = "call" /\ pc # "start")
  => /\ thrown = "InvalidTemplate" <=> ClaimInvalidTemplate(request.template)
     /\ ClaimInvalidTemplate(request.template) => pc = "threw"
     /\ (/\ ~ClaimInvalidTemplate(request.template)
         /\ request.variables.t \in {"null", "str", "num", "bool"})
        => /\ pc = "done"
           /\ thrown = "none"
           /\ processedHtml = request.template.s

\* A template with a conditional block has come back unchanged from a
\* call whose variables argument is a string
C22_Witness ==
  /\ op = "call"
  /\ pc = "done"
  /\ request.template = Str(If(<<"t">>) \o <<"A">> \o closeTag(FALSE))
  /\ request.variables = Str(<<"x">>)
  /\ processedHtml = request.template.s
  /\ thrown = "none"

\* ------------------------------------------------------------------------
\* Iteration-shaped blocks of values that are no arrays: inputs
\* ------------------------------------------------------------------------

\* {{#x}}body{{/x}}
LeftBlock(body) == Open(<<"x">>) \o body \o Close(<<"x">>)

\* Bodies without markers, and bodies with a placeholder, an element marker,
\* an index helper, a conditional block and an iteration block of an array
PlainBodies == {<<>>, <<"a">>, <<"a", " ", "b">>}

LeftBodies ==
  PlainBodies
    \cup { Marker(<<"t">>), Dot, Marker(<<"@", "i", "n", "d", "e", "x">>),
           If(<<"c">>) \o <<"T">> \o closeTag(FALSE), ArrayBlock }

\* What stands before and after the block
LeftContexts ==
  {<<>>, <<"-">>, ArrayBlock, Marker(<<"t">>), If(<<"c">>) \o <<"T">> \o closeTag(FALSE)}

\* The block between two contexts, and the block inside a conditional block
LeftTemplate(pre, body, post, wrapped) ==
  IF wrapped THEN pre \o If(<<"c">>) \o LeftBlock(body) \o closeTag(FALSE) \o post
  ELSE pre \o LeftBlock(body) \o post

\* Values of x that are no arrays
LeftValues ==
  {Null, Str(<<"s">>), Num(0), Bool(TRUE), Obj(<< <<<<"a">>, Num(1)>> >>)}

\* Mappings without x and with x of every such value, and mappings that
\* have the text of a tag of the block as a key
LeftVariables ==
  { Obj(x \o << <<<<"i">>, Arr(<<Str(<<"y">>), Num(2)>>)>>, <<<<"t">>, Str(<<"H">>)>>,
                <<<<"c">>, Bool(c)>> >>) :
      x \in {<<>>} \cup {<< <<<<"x">>, v>> >> : v \in LeftValues},
      c \in BOOLEAN }
    \cup { Obj(<< <<<<"#", "x">>, Str(<<"v">>)>>, <<<<"c">>, Bool(TRUE)>> >>),
           Obj(<< <<<<"/", "x">>, Str(<<"v">>)>>, <<<<"c">>, Bool(TRUE)>> >>) }

LeftCalls ==
  {Call(Str(LeftTemplate(pre, body, post, wrapped)), v) :
     pre \in LeftContexts, body \in LeftBodies, post \in {<<>>, ArrayBlock},
     wrapped \in BOOLEAN, v \in LeftVariables}

InitLeft == \E c \in BaseCalls \cup LeftCalls : Start(c)

\* processTemplate called directly on templates with a block of a value
\* that is no array
SpecLeft == InitLeft /\ [][ProcessNext]_vars

\* ------------------------------------------------------------------------
\* C23
\* ------------------------------------------------------------------------

\* The template of the call is the block with this body, wrapped in a
\* conditional block or not
ClaimLeftCall(body, wrapped) ==
  /\ op = "call"
  /\ request.template.t = "str"
  /\ request.variables \in LeftVariables
  /\ \E pre \in LeftContexts, post \in {<<>>, ArrayBlock} :
       request.template.s = LeftTemplate(pre, body, post, wrapped)

\* No conditional removes the block: it stands in none, or the guard of
\* the one around it is true
ClaimKept(wrapped) ==
  wrapped => \E j \in 1..Len(request.variables.o) :
               request.variables.o[j] = <<<<"c">>, Bool(TRUE)>>

\* The mapping has the text of a tag of the block as a key
ClaimTagKey ==
  \E j \in 1..Len(request.variables.o) :
    request.variables.o[j][1] \in {<<"#", "x">>, <<"/", "x">>}

PureCalls ==
  BaseCalls \cup StageCalls \cup ArgumentCalls \cup ExtractCalls \cup ValidateCalls
    \cup JsonCalls \cup SanitizeCalls

InitPure == \E c \in PureCalls : Start(c)

\* Each exported function called twice with the same arguments
SpecPure == InitPure /\ [][PureNext]_vars

\* ------------------------------------------------------------------------
\* C24
\* ------------------------------------------------------------------------

C25_ResolvedAfterUnterminated ==
  \A u \in BOOLEAN, e \in BOOLEAN :
    (op = "call" /\ pc = "done" /\ html = Str(Followed(u, e)))
    => processedHtml =
         OpenCond(u, <<"a">>) \o <<"X">>
           \o (IF ClaimTruthy(ClaimGuard(variables, <<"b">>)) # u THEN <<"Y">>
               ELSE IF e THEN <<"Z">> ELSE <<>>)

\* ------------------------------------------------------------------------
\* C26
\* ------------------------------------------------------------------------

\* The text of the one element of the array i of the mapping
ClaimInsertedText(vs) == ClaimGuard(vs, <<"i">>).a[1].s

\* C26: text inserted from an array element, through {{.}} or through a
\* property of the element, is in the output literally, whatever markers it
\* holds, and does not change which branch of the conditional block around
\* the iteration block is chosen.
C26_ElementTextLiteral ==
  \A byProperty \in BOOLEAN, wrapped \in BOOLEAN :
    (/\ op = "call"
     /\ pc = "done"
     /\ html = Str(Inserting(byProperty, wrapped))
     /\ request.variables \in UNION {InsertedVariables(text) : text \in InsertedTexts})
    => processedHtml =
         (IF ~wrapped THEN ClaimInsertedText(request.variables)
          ELSE IF ClaimTruthy(ClaimGuard(request.variables, <<"c">>))
               THEN <<"A">> \o ClaimInsertedText(request.variables) \o <<"B">>
               ELSE <<>>)

\* ------------------------------------------------------------------------
\* C27
\* ------------------------------------------------------------------------

ClaimPrimitive(v) == v.t \in {"str", "num", "bool", "null"}

RECURSIVE ClaimModelMapping(_)
RECURSIVE ClaimModelValue(_)

\* A value of the data model: a primitive, an array of primitives, an array
\* of mappings, or a mapping
ClaimModelValue(v) ==
  \/ ClaimPrimitive(v)
  \/ /\ v.t = "arr"
     /\ \/ \A n \in 1..Len(v.a) : ClaimPrimitive(v.a[n])
        \/ \A n \in 1..Len(v.a) : ClaimModelMapping(v.a[n])
  \/ ClaimModelMapping(v)

\* A variable mapping of the data model
ClaimModelMapping(v) ==
  /\ v.t = "obj"
  /\ \A n \in 1..Len(v.o) : ClaimModelValue(v.o[n][2])

\* C27: for a non-empty string template and a variable mapping of the data
\* model, processTemplate does not throw, and what it returns is a string.
C27_NeverThrows ==
  (/\ op = "call"
   /\ request.template.t = "str"
   /\ request.template.s # <<>>
   /\ ClaimModelMapping(request.variables))
  => /\ pc # "threw"
     /\ thrown = "none"

\* ------------------------------------------------------------------------
\* C28
\* ------------------------------------------------------------------------

\* C28: with a string as its mapping argument, the text of a JSON value that
\* is no mapping included, and any list of required names,
\* validateTemplateVariables does not throw and returns a validation record.
C28_StringNeverThrows ==
  (op = "validate" /\ pc # "request" /\ request.variables.t = "str")
  => /\ pc = "done"
     /\ thrown = "none"
     /\ ~returned.threw

\* ------------------------------------------------------------------------
\* C29
\* ------------------------------------------------------------------------

\* The second value has the shape of the first: the same keys in the same
\* order at every level, arrays that are arrays of the same length, the same
\* numbers, booleans and nulls, and a string wherever the first has a string
RECURSIVE ClaimSameShape(_, _)
ClaimSameShape(before, after) ==
  /\ after.t = before.t
  /\ CASE before.t = "str" -> TRUE
       [] before.t = "arr" ->
            /\ Len(after.a) = Len(before.a)
            /\ \A n \in 1..Len(before.a) : ClaimSameShape(before.a[n], after.a[n])
       [] before.t = "obj" ->
            /\ Len(after.o) = Len(before.o)
            /\ \A n \in 1..Len(before.o) :
                 /\ after.o[n][1] = before.o[n][1]
                 /\ ClaimSameShape(before.o[n][2], after.o[n][2])
       [] OTHER -> after = before

\* C29: the result of sanitizeTemplateVariables has the shape of its
\* argument: the same keys at every level, every array, an array inside an
\* array included, an array of the same length and order, every number,
\* boolean and null unchanged; only strings differ.
C29_ShapePreserved ==
  (op = "sanitize" /\ pc = "done") => ClaimSameShape(request.variables, returned)

====
